---- MODULE Spec2Model ----
(***************************************************************************)
(* Smart safe: the lock/unlock/alarm state machine, the control task that  *)
(* feeds it (keypad, motion, remote commands), the command handler, the    *)
(* PIN store, the queues between the tasks, and the telemetry publisher    *)
(* with its delivery-tracking ring buffer.                                 *)
(*                                                                         *)
(* Specifications:                                                         *)
(*   SpecSM  - state_machine_process_event applied to arbitrary events     *)
(*   Spec    - the control task: keypad entry, motion, remote commands     *)
(*   SpecCmd - both command processors over the event-driven state machine *)
(*   SpecRB  - comm task and MQTT callbacks interleaved on the ring buffer *)
(*   SpecFull - SpecRB with enough events to fill the buffer and wrap     *)
(*   SpecTime - the same code with the tick counter running               *)
(*   LiveRB  - SpecRB's code with the scheduling fairness, for liveness    *)
(*   SpecPin - flows calling pin_manager_set, interleaved step by step     *)
(*   SpecPinFn - pin_manager_verify / pin_manager_validate on all inputs   *)
(*   SpecQueues - sends and receives on each queue of queue_manager.c      *)
(*   SpecEvents - control logic, event_queue and the comm task from boot   *)
(*   SpecLocks - the tasks' takes and gives of the mutexes, interleaved    *)
(*   SpecJson - command decoding and forwarding, and event encoding        *)
(*   SpecMotion - mpu6050_movement_detected on a stream of samples         *)
(*   SpecWdt - the loops of control_task and sensor_task and the watchdog  *)
(*   SpecPinInit - pin_manager_init on any flash content, then set calls   *)
(***************************************************************************)
EXTENDS Integers, Sequences, FiniteSets, TLC

VARIABLES
    safe_sm,            \* control_task.c:69  safe_state_machine_t safe_sm
    led,                \* last LED state requested
    pin_buffer,         \* control_task.c:72  pin_buffer / pin_index
    current_pin,        \* control_task.c:21  current_pin
    pm_pin,             \* pin_manager.c:13   current_pin (RAM copy)
    nvs_pin,            \* pin_manager.c:11   the PIN persisted in NVS
    movement_threshold, \* mpu6050.c:44       movement_threshold
    emitted,            \* events handed to send_event by the last handler
    op,                 \* history: the operation the last step performed
    prev,               \* history: safe_sm before the last step
    wrongs,             \* history: WrongPin events processed while Locked since the last reset
    streak,             \* history: consecutive wrong PIN submissions from Locked/0
    steps,              \* history: number of events applied (SpecSM)
    event_buffer,       \* comm_task.c:48    event_ring_buffer_t event_buffer
    mutex,              \* comm_task.c:55    event_buffer_mutex: who holds it
    mqtt_connected,     \* comm_task.c:23    mqtt_connected
    comm,               \* comm task: position and locals
    mqtt,               \* MQTT client task (event handler): position and locals
    next_msg_id,        \* the id the next accepted publish returns
    in_flight,          \* ids published whose acknowledgment is still to come
    tick_count,         \* ticks since boot; xTaskGetTickCount() returns it modulo the counter's period
    configTICK_RATE_HZ, \* the tick rate the firmware was built with
    n_events,           \* history: number of events buffer_event has stored so far
    budget,             \* what the environment may still do (events, faults, ...)
    published,          \* history: published[m] = the event and path of publish m
    removed,            \* history: the entry the last removal took out, and why
    evicted,            \* history: events evicted by an insert into a full buffer
    delivered,          \* history: events removed by an acknowledgment
    warnings,           \* history: "Buffer full" warnings logged
    rb_op,              \* history: the ring-buffer step the last step performed
    pin_flow,           \* pin_manager.c: each calling flow's position in pin_manager_set
    pin_op,             \* history: the last pin_manager call, its argument and its result
    pin_budget,         \* pin_manager calls and NVS failures still to come
    queues,             \* queue_manager.c:15-20  the contents of the six queues
    q_op,               \* history: the last queue_manager call and its result
    q_ghost,            \* history: events handed to send_event, and those it refused
    lock_owner,         \* the task holding each mutex, or "none"
    lock_pc,            \* each task's position in the function that takes a mutex
    json_op,            \* history: the last json_protocol.c call, its argument and its result
    mpu,                \* mpu6050.c:43  movement_hit_count, and the readings taken so far
    wdt                 \* the task watchdog: who is subscribed, time since each task's reset

clockVars == <<tick_count, configTICK_RATE_HZ>>

rbVars == <<event_buffer, mutex, mqtt_connected, comm, mqtt, next_msg_id, in_flight,
            tick_count, configTICK_RATE_HZ, n_events, budget, published, removed, evicted, delivered, warnings, rb_op>>

ctlVars == <<safe_sm, led, pin_buffer, current_pin, pm_pin, nvs_pin,
             movement_threshold, emitted, op, prev, wrongs, streak, steps>>

pinVars == <<pin_flow, pin_op, pin_budget>>

queueVars == <<queues, q_op, q_ghost>>

lockVars == <<lock_owner, lock_pc>>

jsonVars == <<json_op>>

sensorVars == <<mpu, wdt>>

libVars == <<pinVars, queueVars, lockVars, jsonVars, sensorVars>>

----------------------------------------------------------------------------
(* Program constants *)

MAX_WRONG_ATTEMPTS == 3
PIN_LENGTH == 4
MAX_PIN_LENGTH == 8
MOVEMENT_THRESHOLD_MIN == 17000
MOVEMENT_THRESHOLD_MAX == 45000
INITIAL_SENSITIVITY == 20000
CORRECT_PIN == <<"1", "2", "3", "4">>

EVENT_BUFFER_SIZE == 10

(* Bounds of the model *)
MaxSteps == 12

States == {"STATE_LOCKED", "STATE_UNLOCKED", "STATE_ALARM"}
SafeEvents == {"EVENT_CORRECT_PIN", "EVENT_WRONG_PIN", "EVENT_MOVEMENT"}
PinEvents == {"EVENT_CORRECT_PIN", "EVENT_WRONG_PIN"}

----------------------------------------------------------------------------
(* C strings: a string is the sequence of its characters; the byte at      *)
(* index Len+1 is the terminating NUL.                                     *)

Code(c) ==
    CASE c = "0" -> 48 [] c = "1" -> 49 [] c = "2" -> 50 [] c = "3" -> 51
      [] c = "4" -> 52 [] c = "5" -> 53 [] c = "6" -> 54 [] c = "7" -> 55
      [] c = "8" -> 56 [] c = "9" -> 57 [] c = "*" -> 42 [] c = "#" -> 35
      [] c = "A" -> 65 [] c = "B" -> 66 [] c = "C" -> 67 [] c = "D" -> 68
      [] c = "a" -> 97 [] c = "/" -> 47 [] c = ":" -> 58

CharAt(s, i) == IF i <= Len(s) THEN Code(s[i]) ELSE 0

RECURSIVE BitXor(_, _)
BitXor(a, b) ==
    IF a = 0 THEN b
    ELSE IF b = 0 THEN a
    ELSE (((a % 2) + (b % 2)) % 2) + 2 * BitXor(a \div 2, b \div 2)

RECURSIVE BitOr(_, _)
BitOr(a, b) ==
    IF a = 0 THEN b
    ELSE IF b = 0 THEN a
    ELSE (IF (a % 2) + (b % 2) > 0 THEN 1 ELSE 0) + 2 * BitOr(a \div 2, b \div 2)

RECURSIVE strcmp_loop(_, _, _, _)
strcmp_loop(a, b, i, diff) ==
    IF CharAt(a, i) # 0 /\ CharAt(b, i) # 0
    THEN strcmp_loop(a, b, i + 1, BitOr(diff, BitXor(CharAt(a, i), CharAt(b, i))))
    ELSE BitOr(diff, BitXor(CharAt(a, i), CharAt(b, i)))

constant_time_strcmp(a, b) == strcmp_loop(a, b, 1, 0)

\* the number of a[i] ^ b[i] comparisons the same loop performs from index i on
RECURSIVE strcmp_steps(_, _, _)
strcmp_steps(a, b, i) ==
    IF CharAt(a, i) # 0 /\ CharAt(b, i) # 0
    THEN 1 + strcmp_steps(a, b, i + 1)
    ELSE 1

IsDigit(c) == Code(c) >= 48 /\ Code(c) <= 57

----------------------------------------------------------------------------
(* state_machine.c *)

state_machine_init == [current_state |-> "STATE_LOCKED", wrong_count |-> 0]

set_locked(sm) == [current_state |-> "STATE_LOCKED", wrong_count |-> 0]

set_unlocked(sm) == [current_state |-> "STATE_UNLOCKED", wrong_count |-> 0]

set_alarm(sm) == [sm EXCEPT !.current_state = "STATE_ALARM"]

count_wrong_off_by_one(sm) ==
    LET n == [sm EXCEPT !.wrong_count = (sm.wrong_count + 1) % 256]
    IN  IF n.wrong_count > MAX_WRONG_ATTEMPTS THEN set_alarm(n) ELSE n

count_wrong(sm) ==
    LET n == [sm EXCEPT !.wrong_count = (sm.wrong_count + 1) % 256]
    IN  IF n.wrong_count >= MAX_WRONG_ATTEMPTS THEN set_alarm(n) ELSE n

process_event_motion_when_unlocked(sm, event) ==
    CASE sm.current_state = "STATE_LOCKED" ->
            IF event = "EVENT_CORRECT_PIN" THEN set_unlocked(sm)
            ELSE IF event = "EVENT_WRONG_PIN" THEN count_wrong(sm)
            ELSE set_alarm(sm)
      [] sm.current_state = "STATE_UNLOCKED" ->
            IF event = "EVENT_CORRECT_PIN" THEN set_locked(sm)
            ELSE IF event = "EVENT_MOVEMENT" THEN set_alarm(sm)
            ELSE sm
      [] sm.current_state = "STATE_ALARM" ->
            IF event = "EVENT_CORRECT_PIN" THEN set_locked(sm) ELSE sm

state_machine_process_event(sm, event) ==
    CASE sm.current_state = "STATE_LOCKED" ->
            IF event = "EVENT_CORRECT_PIN" THEN set_unlocked(sm)
            ELSE IF event = "EVENT_WRONG_PIN" THEN count_wrong(sm)
            ELSE IF event = "EVENT_MOVEMENT" THEN set_alarm(sm)
            ELSE sm
      [] sm.current_state = "STATE_UNLOCKED" ->
            IF event = "EVENT_CORRECT_PIN" THEN set_locked(sm) ELSE sm
      [] sm.current_state = "STATE_ALARM" ->
            IF event = "EVENT_CORRECT_PIN" THEN set_locked(sm) ELSE sm
      [] OTHER -> set_locked(sm)

----------------------------------------------------------------------------
(* Telemetry events (queue_manager.h event_t; the timestamp is left out) *)

StateChangeEvent(sm) ==
    [type |-> "EVT_STATE_CHANGE", state |-> sm.current_state,
     movement_amount |-> 0, code_ok |-> FALSE]

MovementEvent(sm, movement) ==
    [type |-> "EVT_MOVEMENT", state |-> sm.current_state,
     movement_amount |-> movement, code_ok |-> FALSE]

CodeResultEvent(sm, correct) ==
    [type |-> "EVT_CODE_RESULT", state |-> sm.current_state,
     movement_amount |-> 0, code_ok |-> correct]

CodeChangedEvent(sm, success) ==
    [type |-> "EVT_CODE_CHANGED", state |-> sm.current_state,
     movement_amount |-> 0, code_ok |-> success]

----------------------------------------------------------------------------
(* control_task.c: PIN entry.  The result of a handler is the record       *)
(* [sm, led, out]: the state machine, the LED mode and the events sent.    *)

process_pin_entry_silent_when_unlocked(pin, sm, ledv, cpin) ==
    IF constant_time_strcmp(pin, cpin) = 0
    THEN LET n == state_machine_process_event(sm, "EVENT_CORRECT_PIN")
         IN  [sm  |-> n,
              led |-> IF n.current_state = "STATE_UNLOCKED" THEN "LED_MODE_UNLOCKED"
                      ELSE IF n.current_state = "STATE_LOCKED" THEN "LED_MODE_LOCKED"
                      ELSE ledv,
              out |-> <<CodeResultEvent(n, TRUE), StateChangeEvent(n)>>]
    ELSE IF sm.current_state = "STATE_LOCKED"
    THEN LET n == state_machine_process_event(sm, "EVENT_WRONG_PIN")
         IN  IF n.current_state = "STATE_ALARM"
             THEN [sm |-> n, led |-> "LED_MODE_ALARM_FLASH",
                   out |-> <<StateChangeEvent(n), CodeResultEvent(n, FALSE)>>]
             ELSE [sm |-> n, led |-> ledv, out |-> <<CodeResultEvent(n, FALSE)>>]
    ELSE [sm |-> sm, led |-> ledv, out |-> <<>>]

process_pin_entry(pin, sm, ledv, cpin) ==
    IF constant_time_strcmp(pin, cpin) = 0
    THEN LET n == state_machine_process_event(sm, "EVENT_CORRECT_PIN")
         IN  [sm  |-> n,
              led |-> IF n.current_state = "STATE_UNLOCKED" THEN "LED_MODE_UNLOCKED"
                      ELSE IF n.current_state = "STATE_LOCKED" THEN "LED_MODE_LOCKED"
                      ELSE ledv,
              out |-> <<CodeResultEvent(n, TRUE), StateChangeEvent(n)>>]
    ELSE IF sm.current_state = "STATE_LOCKED"
    THEN LET n == state_machine_process_event(sm, "EVENT_WRONG_PIN")
         IN  IF n.current_state = "STATE_ALARM"
             THEN [sm |-> n, led |-> "LED_MODE_ALARM_FLASH",
                   out |-> <<StateChangeEvent(n), CodeResultEvent(n, FALSE)>>]
             ELSE [sm |-> n, led |-> ledv, out |-> <<CodeResultEvent(n, FALSE)>>]
    ELSE IF sm.current_state = "STATE_UNLOCKED"
    THEN [sm |-> sm, led |-> ledv, out |-> <<CodeResultEvent(sm, FALSE)>>]
    ELSE IF sm.current_state = "STATE_ALARM"
    THEN [sm |-> sm, led |-> ledv, out |-> <<CodeResultEvent(sm, FALSE)>>]
    ELSE [sm |-> sm, led |-> ledv, out |-> <<>>]

(* History: the run of consecutive wrong PIN submissions that started in   *)
(* Locked with wrong_count 0, with the events the run has emitted.         *)
NoStreak == [n |-> 0, code_false |-> 0, state_change |-> 0]

CountOf(out, P(_)) == Cardinality({i \in 1..Len(out) : P(out[i])})

IsCodeFalse(e) == e.type = "EVT_CODE_RESULT" /\ ~e.code_ok
IsStateChange(e) == e.type = "EVT_STATE_CHANGE"

StreakAfterWrong(sm, out) ==
    LET base == IF sm = state_machine_init THEN NoStreak ELSE streak
        go   == sm = state_machine_init \/ (streak.n > 0 /\ streak.n < MAX_WRONG_ATTEMPTS)
    IN  IF go
        THEN [n            |-> base.n + 1,
              code_false   |-> base.code_false + CountOf(out, IsCodeFalse),
              state_change |-> base.state_change + CountOf(out, IsStateChange)]
        ELSE NoStreak

(* History: WrongPin events processed while Locked since the last reset. *)
WrongsAfter(sm, event, n) ==
    IF event = "EVENT_WRONG_PIN" /\ sm.current_state = "STATE_LOCKED" THEN wrongs + 1
    ELSE IF n.wrong_count = 0 THEN 0
    ELSE wrongs

----------------------------------------------------------------------------
(* control_task.c: keypad *)

Keys == {"1", "2", "3", "4", "*", "#", "A"}

OpKey(key) == [kind |-> "key", arg |-> key, pin |-> <<>>, sensitivity |-> 0, outcome |-> "ok"]
OpPin(pin) == [kind |-> "pin", arg |-> "#", pin |-> pin, sensitivity |-> 0, outcome |-> "ok"]
OpCmd(kind, cmd) ==
    [kind |-> kind, arg |-> cmd.type, pin |-> cmd.code, sensitivity |-> cmd.sensitivity,
     outcome |-> "ok"]
OpMotion == [kind |-> "motion", arg |-> "", pin |-> <<>>, sensitivity |-> 0, outcome |-> "ok"]
OpEvent(event) == [kind |-> "event", arg |-> event, pin |-> <<>>, sensitivity |-> 0, outcome |-> "ok"]
OpInit == [kind |-> "init", arg |-> "", pin |-> <<>>, sensitivity |-> 0, outcome |-> "ok"]

Quiet == /\ emitted' = <<>>
         /\ prev' = safe_sm
         /\ UNCHANGED <<safe_sm, led, streak>>

\* the digit branch storing the digit whatever pin_index is
store_digit_without_bound(buffer, key) == Append(buffer, key)

\* the digit branch of handle_key_press: the buffer after the key
store_digit(buffer, key) ==
    IF Len(buffer) < PIN_LENGTH THEN Append(buffer, key) ELSE buffer

handle_key_press(key) ==
    /\ IF IsDigit(key)
       THEN /\ pin_buffer' = store_digit(pin_buffer, key)
            /\ op' = OpKey(key)
            /\ Quiet
       ELSE IF key = "*"
       THEN /\ pin_buffer' = <<>>
            /\ op' = OpKey(key)
            /\ Quiet
       ELSE IF key = "#"
       THEN /\ pin_buffer' = <<>>
            /\ IF Len(pin_buffer) = PIN_LENGTH
               THEN LET r == process_pin_entry(pin_buffer, safe_sm, led, current_pin)
                    IN  /\ safe_sm' = r.sm
                        /\ led' = r.led
                        /\ emitted' = r.out
                        /\ prev' = safe_sm
                        /\ op' = OpPin(pin_buffer)
                        /\ streak' = IF pin_buffer # current_pin
                                     THEN StreakAfterWrong(safe_sm, r.out)
                                     ELSE NoStreak
               ELSE /\ op' = OpKey(key)
                    /\ Quiet
       ELSE /\ op' = OpKey(key)
            /\ UNCHANGED pin_buffer
            /\ Quiet
    /\ wrongs' = WrongsAfter(safe_sm,
                              IF op'.kind # "pin" THEN ""
                              ELSE IF pin_buffer = current_pin THEN "EVENT_CORRECT_PIN"
                              ELSE "EVENT_WRONG_PIN",
                              safe_sm')
    /\ UNCHANGED <<current_pin, pm_pin, nvs_pin, movement_threshold, steps>>
    /\ UNCHANGED <<rbVars, libVars>>

KeyPress == \E key \in Keys : handle_key_press(key)

----------------------------------------------------------------------------
(* Remote commands (queue_manager.h command_t) *)

Codes == { <<"4", "3", "2", "1">>, <<"1", "2", "3", "4", "1">>, <<"1", "2", "a", "4">> }
Sensitivities == {10000, 30000, 50000}

Command(t, c, s) == [type |-> t, code |-> c, sensitivity |-> s]

Commands ==
    {Command(t, <<>>, 0) : t \in {"CMD_LOCK", "CMD_UNLOCK", "CMD_RESET_ALARM", "CMD_UNKNOWN"}}
    \cup {Command("CMD_SET_CODE", c, 0) : c \in Codes}
    \cup {Command("CMD_SET_SENSITIVITY", <<>>, s) : s \in Sensitivities}

AllDigits(pin) == \A i \in 1..Len(pin) : IsDigit(pin[i])

(* control_task.c: the command switch of the control loop.                 *)
(* Result: [sm, led, out, pin].                                            *)
control_task_command_unlock_anywhere(cmd, sm, ledv, cpin) ==
    IF cmd.type = "CMD_UNLOCK" /\ sm.current_state # "STATE_UNLOCKED"
    THEN LET n == [sm EXCEPT !.current_state = "STATE_UNLOCKED"]
         IN  [sm |-> n, led |-> "LED_MODE_UNLOCKED",
              out |-> <<StateChangeEvent(n)>>, pin |-> cpin]
    ELSE [sm |-> sm, led |-> ledv, out |-> <<>>, pin |-> cpin]

control_task_command(cmd, sm, ledv, cpin) ==
    CASE cmd.type = "CMD_LOCK" ->
            IF sm.current_state = "STATE_UNLOCKED"
            THEN LET n == [state_machine_process_event(sm, "EVENT_CORRECT_PIN")
                             EXCEPT !.current_state = "STATE_LOCKED"]
                 IN  [sm |-> n, led |-> "LED_MODE_LOCKED",
                      out |-> <<StateChangeEvent(n)>>, pin |-> cpin]
            ELSE [sm |-> sm, led |-> ledv, out |-> <<>>, pin |-> cpin]
      [] cmd.type = "CMD_UNLOCK" ->
            IF sm.current_state = "STATE_LOCKED"
            THEN LET n == [sm EXCEPT !.current_state = "STATE_UNLOCKED"]
                 IN  [sm |-> n, led |-> "LED_MODE_UNLOCKED",
                      out |-> <<StateChangeEvent(n)>>, pin |-> cpin]
            ELSE [sm |-> sm, led |-> ledv, out |-> <<>>, pin |-> cpin]
      [] cmd.type = "CMD_SET_CODE" ->
            IF Len(cmd.code) = PIN_LENGTH /\ AllDigits(cmd.code)
            THEN [sm |-> sm, led |-> ledv,
                  out |-> <<CodeChangedEvent(sm, TRUE)>>, pin |-> cmd.code]
            ELSE [sm |-> sm, led |-> ledv,
                  out |-> <<CodeChangedEvent(sm, FALSE)>>, pin |-> cpin]
      [] cmd.type = "CMD_RESET_ALARM" ->
            IF sm.current_state = "STATE_ALARM"
            THEN LET n == [current_state |-> "STATE_LOCKED", wrong_count |-> 0]
                 IN  [sm |-> n, led |-> "LED_MODE_LOCKED",
                      out |-> <<StateChangeEvent(n)>>, pin |-> cpin]
            ELSE [sm |-> sm, led |-> ledv, out |-> <<>>, pin |-> cpin]
      [] OTHER -> [sm |-> sm, led |-> ledv, out |-> <<>>, pin |-> cpin]

ControlCommand ==
    \E cmd \in Commands :
        LET r == control_task_command(cmd, safe_sm, led, current_pin)
        IN  /\ safe_sm' = r.sm
            /\ led' = r.led
            /\ emitted' = r.out
            /\ current_pin' = r.pin
            /\ prev' = safe_sm
            /\ op' = OpCmd("cmd", cmd)
            /\ streak' = NoStreak
            /\ wrongs' = WrongsAfter(safe_sm, "", r.sm)
            /\ UNCHANGED <<pin_buffer, pm_pin, nvs_pin, movement_threshold, steps>>
            /\ UNCHANGED <<rbVars, libVars>>

(* pin_manager.c *)

\* a null pointer: the one argument value that is not a string
NULL == <<"NULL">>

pin_manager_validate_any_length(pin) == pin # NULL /\ Len(pin) >= PIN_LENGTH /\ AllDigits(pin)

pin_manager_validate(pin) == pin # NULL /\ Len(pin) = PIN_LENGTH /\ AllDigits(pin)

\* What the NVS calls of save_pin_to_nvs can do: nvs_open fails, nvs_set_str
\* fails, nvs_commit fails (the value nvs_set_str wrote may or may not have
\* reached the flash), or all three succeed.
NvsOutcomes == {"ok", "open_failed", "set_failed", "commit_failed", "commit_failed_written"}

\* Result: [ok, nvs].
save_pin_to_nvs_ignores_commit(pin, nvs, outcome) ==
    [ok  |-> outcome \in {"ok", "commit_failed", "commit_failed_written"},
     nvs |-> IF outcome \in {"ok", "commit_failed_written"} THEN pin ELSE nvs]

save_pin_to_nvs(pin, nvs, outcome) ==
    [ok  |-> outcome = "ok",
     nvs |-> IF outcome \in {"ok", "commit_failed_written"} THEN pin ELSE nvs]

\* strncpy(dst, src, n) followed by the NUL the callers store at dst[n]
strncpy(src, n) == SubSeq(src, 1, IF Len(src) < n THEN Len(src) ELSE n)

\* pin_manager_set returning true whatever save_pin_to_nvs returned
pin_manager_set_reports_success(new_pin, ram, nvs, outcome) ==
    IF ~pin_manager_validate(new_pin) THEN [ok |-> FALSE, ram |-> ram, nvs |-> nvs]
    ELSE LET r == save_pin_to_nvs(new_pin, nvs, outcome)
         IN  IF ~r.ok THEN [ok |-> TRUE, ram |-> ram, nvs |-> r.nvs]
             ELSE [ok |-> TRUE, ram |-> strncpy(new_pin, MAX_PIN_LENGTH - 1), nvs |-> r.nvs]

\* One uninterrupted call.  Result: [ok, ram, nvs].
pin_manager_set(new_pin, ram, nvs, outcome) ==
    IF ~pin_manager_validate(new_pin) THEN [ok |-> FALSE, ram |-> ram, nvs |-> nvs]
    ELSE LET r == save_pin_to_nvs(new_pin, nvs, outcome)
         IN  IF ~r.ok THEN [ok |-> FALSE, ram |-> ram, nvs |-> r.nvs]
             ELSE [ok |-> TRUE, ram |-> strncpy(new_pin, MAX_PIN_LENGTH - 1), nvs |-> r.nvs]

\* load_pin_from_nvs into a buffer of buffer_size bytes: nvs is the string
\* stored under the key (NULL when there is none), outcome what nvs_open and
\* nvs_get_str do.  Result: [ok, pin].
LoadOutcomes == {"ok", "open_failed", "read_failed"}

load_pin_from_nvs(nvs, buffer_size, outcome) ==
    IF outcome = "ok" /\ nvs # NULL /\ Len(nvs) + 1 <= buffer_size
    THEN [ok |-> TRUE, pin |-> nvs]
    ELSE [ok |-> FALSE, pin |-> <<>>]

\* pin_manager_init using whatever string it loaded
pin_manager_init_trusts_stored(default_pin, ram, nvs, mutex_created, load, save) ==
    IF default_pin = NULL \/ ~pin_manager_validate(default_pin)
    THEN [ok |-> FALSE, ram |-> ram, nvs |-> nvs]
    ELSE IF ~mutex_created THEN [ok |-> FALSE, ram |-> ram, nvs |-> nvs]
    ELSE LET loaded == load_pin_from_nvs(nvs, MAX_PIN_LENGTH, load)
         IN  IF loaded.ok
             THEN [ok |-> TRUE, ram |-> strncpy(loaded.pin, MAX_PIN_LENGTH - 1), nvs |-> nvs]
             ELSE LET pin == strncpy(default_pin, MAX_PIN_LENGTH - 1)
                  IN  [ok |-> TRUE, ram |-> pin, nvs |-> save_pin_to_nvs(pin, nvs, save).nvs]

\* pin_manager_init(default_pin).  Result: [ok, ram, nvs].
pin_manager_init(default_pin, ram, nvs, mutex_created, load, save) ==
    IF default_pin = NULL \/ ~pin_manager_validate(default_pin)
    THEN [ok |-> FALSE, ram |-> ram, nvs |-> nvs]
    ELSE IF ~mutex_created THEN [ok |-> FALSE, ram |-> ram, nvs |-> nvs]
    ELSE LET loaded == load_pin_from_nvs(nvs, MAX_PIN_LENGTH, load)
         IN  IF loaded.ok
             THEN [ok  |-> TRUE,
                   ram |-> IF pin_manager_validate(loaded.pin)
                           THEN strncpy(loaded.pin, MAX_PIN_LENGTH - 1)
                           ELSE strncpy(default_pin, MAX_PIN_LENGTH - 1),
                   nvs |-> nvs]
             ELSE LET pin == strncpy(default_pin, MAX_PIN_LENGTH - 1)
                  IN  [ok |-> TRUE, ram |-> pin, nvs |-> save_pin_to_nvs(pin, nvs, save).nvs]

(* mpu6050.c *)

\* mpu6050_set_threshold storing the requested value as it is
mpu6050_set_threshold_unclamped(threshold) == threshold

mpu6050_set_threshold(threshold) ==
    IF threshold < MOVEMENT_THRESHOLD_MIN THEN MOVEMENT_THRESHOLD_MIN
    ELSE IF threshold > MOVEMENT_THRESHOLD_MAX THEN MOVEMENT_THRESHOLD_MAX
    ELSE threshold

\* command_handler_process whose default branch resets the state machine
command_handler_process_default_resets(cmd, sm, ledv, ram, nvs, thr, outcome) ==
    LET same == [sm |-> sm, led |-> ledv, out |-> <<>>, ram |-> ram, nvs |-> nvs, thr |-> thr]
    IN
    CASE cmd.type = "CMD_LOCK" ->
            IF sm.current_state = "STATE_UNLOCKED"
            THEN LET n == [sm EXCEPT !.current_state = "STATE_LOCKED"]
                 IN  [same EXCEPT !.sm = n, !.led = "LED_MODE_LOCKED",
                                  !.out = <<StateChangeEvent(n)>>]
            ELSE same
      [] cmd.type = "CMD_UNLOCK" ->
            IF sm.current_state = "STATE_LOCKED"
            THEN LET n == [sm EXCEPT !.current_state = "STATE_UNLOCKED"]
                 IN  [same EXCEPT !.sm = n, !.led = "LED_MODE_UNLOCKED",
                                  !.out = <<StateChangeEvent(n)>>]
            ELSE same
      [] cmd.type = "CMD_SET_CODE" ->
            LET r == pin_manager_set(cmd.code, ram, nvs, outcome)
            IN  [same EXCEPT !.ram = r.ram, !.nvs = r.nvs,
                             !.out = <<CodeChangedEvent(sm, r.ok)>>]
      [] cmd.type = "CMD_RESET_ALARM" ->
            IF sm.current_state = "STATE_ALARM"
            THEN LET n == [current_state |-> "STATE_LOCKED", wrong_count |-> 0]
                 IN  [same EXCEPT !.sm = n, !.led = "LED_MODE_LOCKED",
                                  !.out = <<StateChangeEvent(n)>>]
            ELSE same
      [] cmd.type = "CMD_SET_SENSITIVITY" ->
            [same EXCEPT !.thr = mpu6050_set_threshold(cmd.sensitivity)]
      [] OTHER ->
            LET n == [current_state |-> "STATE_LOCKED", wrong_count |-> 0]
            IN  [same EXCEPT !.sm = n, !.led = "LED_MODE_LOCKED",
                             !.out = <<StateChangeEvent(n)>>]

(* command_handler.c.  Result: [sm, led, out, ram, nvs, thr]. *)
command_handler_process(cmd, sm, ledv, ram, nvs, thr, outcome) ==
    LET same == [sm |-> sm, led |-> ledv, out |-> <<>>, ram |-> ram, nvs |-> nvs, thr |-> thr]
    IN
    CASE cmd.type = "CMD_LOCK" ->
            IF sm.current_state = "STATE_UNLOCKED"
            THEN LET n == [sm EXCEPT !.current_state = "STATE_LOCKED"]
                 IN  [same EXCEPT !.sm = n, !.led = "LED_MODE_LOCKED",
                                  !.out = <<StateChangeEvent(n)>>]
            ELSE same
      [] cmd.type = "CMD_UNLOCK" ->
            IF sm.current_state = "STATE_LOCKED"
            THEN LET n == [sm EXCEPT !.current_state = "STATE_UNLOCKED"]
                 IN  [same EXCEPT !.sm = n, !.led = "LED_MODE_UNLOCKED",
                                  !.out = <<StateChangeEvent(n)>>]
            ELSE same
      [] cmd.type = "CMD_SET_CODE" ->
            LET r == pin_manager_set(cmd.code, ram, nvs, outcome)
            IN  [same EXCEPT !.ram = r.ram, !.nvs = r.nvs,
                             !.out = <<CodeChangedEvent(sm, r.ok)>>]
      [] cmd.type = "CMD_RESET_ALARM" ->
            IF sm.current_state = "STATE_ALARM"
            THEN LET n == [current_state |-> "STATE_LOCKED", wrong_count |-> 0]
                 IN  [same EXCEPT !.sm = n, !.led = "LED_MODE_LOCKED",
                                  !.out = <<StateChangeEvent(n)>>]
            ELSE same
      [] cmd.type = "CMD_SET_SENSITIVITY" ->
            [same EXCEPT !.thr = mpu6050_set_threshold(cmd.sensitivity)]
      [] OTHER -> same

CommandHandler ==
    \E cmd \in Commands :
    \E outcome \in (IF cmd.type = "CMD_SET_CODE" THEN NvsOutcomes ELSE {"ok"}) :
        LET r == command_handler_process(cmd, safe_sm, led, pm_pin, nvs_pin,
                                         movement_threshold, outcome)
        IN  /\ safe_sm' = r.sm
            /\ led' = r.led
            /\ emitted' = r.out
            /\ pm_pin' = r.ram
            /\ nvs_pin' = r.nvs
            /\ movement_threshold' = r.thr
            /\ prev' = safe_sm
            /\ op' = [OpCmd("cmdh", cmd) EXCEPT !.outcome = outcome]
            /\ streak' = NoStreak
            /\ wrongs' = WrongsAfter(safe_sm, "", r.sm)
            /\ UNCHANGED <<pin_buffer, current_pin, steps>>
            /\ UNCHANGED <<rbVars, libVars>>

(* control_task.c: the accelerometer check of the control loop, when       *)
(* mpu6050_movement_detected() reports movement.                           *)
Movements == {15}

control_task_motion(movement, sm, ledv) ==
    IF sm.current_state = "STATE_LOCKED"
    THEN LET n == state_machine_process_event(sm, "EVENT_MOVEMENT")
         IN  IF n.current_state = "STATE_ALARM"
             THEN [sm |-> n, led |-> "LED_MODE_ALARM_FLASH",
                   out |-> <<MovementEvent(sm, movement), StateChangeEvent(n)>>]
             ELSE [sm |-> n, led |-> ledv, out |-> <<MovementEvent(sm, movement)>>]
    ELSE [sm |-> sm, led |-> ledv, out |-> <<>>]

Motion ==
    \E movement \in Movements :
        LET r == control_task_motion(movement, safe_sm, led)
        IN  /\ safe_sm' = r.sm
            /\ led' = r.led
            /\ emitted' = r.out
            /\ prev' = safe_sm
            /\ op' = OpMotion
            /\ streak' = NoStreak
            /\ wrongs' = WrongsAfter(safe_sm, "EVENT_MOVEMENT", r.sm)
            /\ UNCHANGED <<pin_buffer, current_pin, pm_pin, nvs_pin, movement_threshold,
                           steps>>
            /\ UNCHANGED <<rbVars, libVars>>

----------------------------------------------------------------------------
(* comm_task.c: the ring buffer.  An entry is [event, msg_id, pending]; the *)
(* event is identified by its number in the order the comm task received   *)
(* it.  The operators below are the bodies of the functions, each executed *)
(* with event_buffer_mutex held.                                           *)

Slot(i) == i % EVENT_BUFFER_SIZE

\* TickType_t and uint32_t arithmetic is modulo 2^32.  The counter is modelled
\* with TICK_BITS bits (the checker's integers are 32 bits wide): every value
\* the program keeps in a TickType_t is reduced modulo 2^TICK_BITS, and the
\* deadline of 10 s stays well below the period of the counter, as in the program
TICK_BITS == 16
Ticks(t) == t % (2 ^ TICK_BITS)

xTaskGetTickCount == Ticks(tick_count)
portTICK_PERIOD_MS == 1000 \div configTICK_RATE_HZ
pdMS_TO_TICKS(ms) == Ticks((ms * configTICK_RATE_HZ) \div 1000)

\* an entry as buffer_event writes it.  timestamp is the field of the program;
\* sent is history: the tick count, not reduced modulo the period, at the moment the
\* code read the clock for the timestamp it stored
NewEntry(event, msg_id, pending) ==
    [event |-> event, msg_id |-> msg_id, pending |-> pending,
     timestamp |-> xTaskGetTickCount, sent |-> tick_count]

Min(S) == CHOOSE x \in S : \A y \in S : x <= y

buffer_event_drop_newest(buf, event, msg_id, pending) ==
    IF buf.count >= EVENT_BUFFER_SIZE THEN buf
    ELSE [buf EXCEPT !.events[buf.head] = NewEntry(event, msg_id, pending),
                     !.head = Slot(buf.head + 1),
                     !.count = buf.count + 1]

\* buffer_event overwriting the oldest entry of a full buffer without
\* advancing tail
buffer_event_keeps_tail_when_full(buf, event, msg_id, pending) ==
    LET b == IF buf.count >= EVENT_BUFFER_SIZE
             THEN [buf EXCEPT !.count = buf.count - 1]
             ELSE buf
    IN  [b EXCEPT !.events[b.head] = NewEntry(event, msg_id, pending),
                  !.head = Slot(b.head + 1),
                  !.count = b.count + 1]

buffer_event(buf, event, msg_id, pending) ==
    LET b == IF buf.count >= EVENT_BUFFER_SIZE
             THEN [buf EXCEPT !.tail = Slot(buf.tail + 1), !.count = buf.count - 1]
             ELSE buf
    IN  [b EXCEPT !.events[b.head] = NewEntry(event, msg_id, pending),
                  !.head = Slot(b.head + 1),
                  !.count = b.count + 1]

\* the index of the first entry, from the tail, that is not pending; -1 if none
find_next_non_pending_event(buf) ==
    LET found == {i \in 0..(buf.count - 1) : ~buf.events[Slot(buf.tail + i)].pending}
    IN  IF found = {} THEN -1 ELSE Slot(buf.tail + Min(found))

mark_event_pending(buf, index, msg_id) ==
    [buf EXCEPT !.events[index].msg_id = msg_id,
                !.events[index].pending = TRUE,
                !.events[index].timestamp = xTaskGetTickCount,
                !.events[index].sent = tick_count]

\* publish_telemetry: the entry at head - 1 gets the message id, pending = true
\* and timestamp = xTaskGetTickCount() * portTICK_PERIOD_MS
mark_last_event_pending(buf, msg_id) ==
    LET last_index == Slot(buf.head - 1 + EVENT_BUFFER_SIZE)
    IN  [buf EXCEPT !.events[last_index].msg_id = msg_id,
                    !.events[last_index].pending = TRUE,
                    !.events[last_index].timestamp =
                        Ticks(xTaskGetTickCount * portTICK_PERIOD_MS),
                    !.events[last_index].sent = tick_count]

has_buffered_events(buf) == buf.count > 0

\* for (j = i; j > 0; j--) events[tail + j] = events[tail + j - 1]
RECURSIVE shift_forward(_, _, _)
shift_forward(events, tail, j) ==
    IF j > 0
    THEN shift_forward([events EXCEPT ![Slot(tail + j)] = events[Slot(tail + j - 1)]],
                       tail, j - 1)
    ELSE events

delivered_position_ignores_pending(buf, msg_id) ==
    LET found == {i \in 0..(buf.count - 1) :
                     buf.events[Slot(buf.tail + i)].msg_id = msg_id}
    IN  IF found = {} THEN -1 ELSE Min(found)

\* the position, from the tail, of the entry mark_event_delivered removes; -1 if none
delivered_position(buf, msg_id) ==
    LET found == {i \in 0..(buf.count - 1) :
                     /\ buf.events[Slot(buf.tail + i)].msg_id = msg_id
                     /\ buf.events[Slot(buf.tail + i)].pending}
    IN  IF found = {} THEN -1 ELSE Min(found)

mark_event_delivered_no_shift(buf, msg_id) ==
    LET i == delivered_position(buf, msg_id)
    IN  IF i < 0 THEN buf
        ELSE IF i = buf.count - 1 /\ i # 0
        THEN [buf EXCEPT !.head = Slot(buf.head - 1 + EVENT_BUFFER_SIZE),
                         !.count = buf.count - 1]
        ELSE [buf EXCEPT !.tail = Slot(buf.tail + 1), !.count = buf.count - 1]

mark_event_delivered(buf, msg_id) ==
    LET i == delivered_position(buf, msg_id)
    IN  IF i < 0 THEN buf
        ELSE IF i = 0
        THEN [buf EXCEPT !.tail = Slot(buf.tail + 1), !.count = buf.count - 1]
        ELSE IF i = buf.count - 1
        THEN [buf EXCEPT !.head = Slot(buf.head - 1 + EVENT_BUFFER_SIZE),
                         !.count = buf.count - 1]
        ELSE [buf EXCEPT !.events = shift_forward(buf.events, buf.tail, i),
                         !.tail = Slot(buf.tail + 1),
                         !.count = buf.count - 1]

\* the entries from tail to head
Live(buf) == [i \in 1..buf.count |-> buf.events[Slot(buf.tail + i - 1)]]
BufferedEvents(buf) == [i \in 1..buf.count |-> buf.events[Slot(buf.tail + i - 1)].event]

----------------------------------------------------------------------------
(* Initial states *)

EmptySlot == [event |-> 0, msg_id |-> 0, pending |-> FALSE, timestamp |-> 0, sent |-> 0]

NothingRemoved == [by |-> "none", event |-> 0, msg_id |-> -1, pos |-> "none"]

CommIdle == [pc |-> "idle", event |-> 0, msg_id |-> -1, i |-> 0, index |-> 0,
             old_msg_id |-> -1, current_ticks |-> 0]
MqttIdle == [pc |-> "idle", event |-> 0, msg_id |-> -1, index |-> -1]

NoBudget == [events |-> 0, msg_ids |-> 0, faults |-> 0, drops |-> 0, timeouts |-> 0,
             clock |-> FALSE, ticks |-> 0]

\* tick rates of a build: the ESP-IDF default, and one tick per millisecond
TickRates == {100, 1000}

\* c: where the comm task is (in wifi_init, or in its loop)
InitComm(b, c) ==
    /\ event_buffer = [events |-> [i \in 0..(EVENT_BUFFER_SIZE - 1) |-> EmptySlot],
                       head |-> 0, tail |-> 0, count |-> 0]
    /\ mutex = "free"
    /\ mqtt_connected = FALSE
    /\ comm = c
    /\ mqtt = MqttIdle
    /\ next_msg_id = 1
    /\ in_flight = {}
    /\ tick_count = 0
    /\ configTICK_RATE_HZ \in (IF b.clock THEN TickRates ELSE {Min(TickRates)})
    /\ n_events = 0
    /\ budget = b
    /\ published = <<>>
    /\ removed = NothingRemoved
    /\ evicted = {}
    /\ delivered = {}
    /\ warnings = 0
    /\ rb_op = "init"

\* comm_task(): the state when the loop is entered
InitRB(b) == InitComm(b, CommIdle)

\* control_task(): the state after the initialisation that precedes the loop
InitCtl ==
    /\ safe_sm = state_machine_init
    /\ led = "LED_MODE_LOCKED"
    /\ pin_buffer = <<>>
    /\ current_pin = CORRECT_PIN
    /\ movement_threshold = INITIAL_SENSITIVITY
    /\ emitted = <<StateChangeEvent(state_machine_init)>>
    /\ op = OpInit
    /\ prev = state_machine_init
    /\ wrongs = 0
    /\ streak = NoStreak
    /\ steps = 0

----------------------------------------------------------------------------
(* queue_manager.c: six FreeRTOS queues.  An item is what the producer's    *)
(* pointer refers to; NULL_PTR is the null pointer.                         *)

KEY_QUEUE_SIZE == 10
SENSOR_QUEUE_SIZE == 5
LED_QUEUE_SIZE == 5
LCD_QUEUE_SIZE == 5
EVENT_QUEUE_SIZE == 10
CMD_QUEUE_SIZE == 5

NULL_PTR == 0

Channels == {"key", "sensor", "led", "lcd", "event", "cmd"}

\* queue_manager_init: the length each queue is created with
QueueSize(ch) ==
    CASE ch = "key" -> KEY_QUEUE_SIZE
      [] ch = "sensor" -> SENSOR_QUEUE_SIZE
      [] ch = "led" -> LED_QUEUE_SIZE
      [] ch = "lcd" -> LCD_QUEUE_SIZE
      [] ch = "event" -> EVENT_QUEUE_SIZE
      [] ch = "cmd" -> CMD_QUEUE_SIZE

\* xQueueSend(queue, item, xTicksToWait) on a queue of the given length.
\* Result: [ok, q, waited]; waited: the caller was held until the wait ran out.
xQueueSend_overwrite_when_full(q, size, item, xTicksToWait) ==
    IF Len(q) >= size
    THEN [ok |-> FALSE, q |-> Append(Tail(q), item), waited |-> xTicksToWait > 0]
    ELSE [ok |-> TRUE, q |-> Append(q, item), waited |-> FALSE]

xQueueSend(q, size, item, xTicksToWait) ==
    IF Len(q) >= size
    THEN [ok |-> FALSE, q |-> q, waited |-> xTicksToWait > 0]
    ELSE [ok |-> TRUE, q |-> Append(q, item), waited |-> FALSE]

\* send_key_event, send_sensor_event, send_led_cmd, send_lcd_cmd, send_event
\* and send_command: the same code on the channel's queue.
\* Result: [ok, qs, waited].
queue_send(ch, item, qs) ==
    IF item = NULL_PTR THEN [ok |-> FALSE, qs |-> qs, waited |-> FALSE]
    ELSE LET r == xQueueSend(qs[ch], QueueSize(ch), item, 0)
         IN  [ok |-> r.ok, qs |-> [qs EXCEPT ![ch] = r.q], waited |-> r.waited]

\* receive_key_event ... receive_command, when the wait ends.
\* Result: [ok, item, qs].
queue_receive(ch, qs) ==
    IF qs[ch] = <<>> THEN [ok |-> FALSE, item |-> NULL_PTR, qs |-> qs]
    ELSE [ok |-> TRUE, item |-> Head(qs[ch]), qs |-> [qs EXCEPT ![ch] = Tail(@)]]

QueueItems == {NULL_PTR, 1, 2}

NoQueueOp == [fn |-> "init", ch |-> "none", item |-> NULL_PTR, ret |-> FALSE,
              waited |-> FALSE, before |-> <<>>]
NoSends == [channels |-> {}, events |-> 0, n_sent |-> 0, lost |-> {}]

InitQueues(g) ==
    /\ queues = [ch \in Channels |-> <<>>]
    /\ q_op = NoQueueOp
    /\ q_ghost = g

QueueSend ==
    \E ch \in q_ghost.channels, item \in QueueItems :
        LET r == queue_send(ch, item, queues)
        IN  /\ queues' = r.qs
            /\ q_op' = [fn |-> "send", ch |-> ch, item |-> item, ret |-> r.ok,
                        waited |-> r.waited, before |-> queues[ch]]
            /\ UNCHANGED <<q_ghost, ctlVars, rbVars, pinVars, lockVars, jsonVars, sensorVars>>

QueueReceive ==
    \E ch \in q_ghost.channels :
        LET r == queue_receive(ch, queues)
        IN  /\ queues' = r.qs
            /\ q_op' = [fn |-> "receive", ch |-> ch, item |-> r.item, ret |-> r.ok,
                        waited |-> FALSE, before |-> queues[ch]]
            /\ UNCHANGED <<q_ghost, ctlVars, rbVars, pinVars, lockVars, jsonVars, sensorVars>>

----------------------------------------------------------------------------
(* comm_task.c: the publisher task (comm_task) and the MQTT client task    *)
(* that runs mqtt_event_handler.  A step is what a task does between two   *)
(* points where the other task can run: a critical section of              *)
(* event_buffer_mutex, or a read of mqtt_connected together with the call  *)
(* of esp_mqtt_client_publish that follows it.                             *)

\* what esp_mqtt_client_publish can return: a fresh message id, or -1
PublishResults ==
    (IF budget.msg_ids > 0 THEN {next_msg_id} ELSE {}) \cup
    (IF budget.faults > 0 THEN {-1} ELSE {})

\* event_to_json: succeeds, or fails (len <= 0)
JsonResults == IF budget.faults > 0 THEN BOOLEAN ELSE {TRUE}

esp_mqtt_client_publish(msg_id, event, by) ==
    IF msg_id >= 0
    THEN /\ next_msg_id' = next_msg_id + 1
         /\ in_flight' = in_flight \cup {msg_id}
         /\ published' = Append(published, [event |-> event, by |-> by])
         /\ budget' = [budget EXCEPT !.msg_ids = @ - 1]
    ELSE /\ budget' = [budget EXCEPT !.faults = @ - 1]
         /\ UNCHANGED <<next_msg_id, in_flight, published>>

\* publish_telemetry(event) up to and including buffer_event(event, -1, false);
\* b is the budget left once the event has been taken
publish_telemetry_insert(event, b) ==
    /\ \E json_ok \in JsonResults :
          IF json_ok
          THEN /\ n_events' = n_events + 1
               /\ event_buffer' = buffer_event(event_buffer, event, -1, FALSE)
               /\ IF event_buffer.count >= EVENT_BUFFER_SIZE
                  THEN /\ warnings' = warnings + 1
                       /\ evicted' = evicted \cup {event_buffer.events[event_buffer.tail].event}
                       /\ removed' = [by |-> "evict",
                                      event |-> event_buffer.events[event_buffer.tail].event,
                                      msg_id |-> -1, pos |-> "tail"]
                  ELSE UNCHANGED <<warnings, evicted, removed>>
               /\ comm' = [CommIdle EXCEPT !.pc = "pt_check", !.event = event]
               /\ budget' = b
               /\ rb_op' = "insert"
          ELSE /\ budget' = [b EXCEPT !.faults = @ - 1]
               /\ rb_op' = "json_failed"
               /\ UNCHANGED <<event_buffer, n_events, warnings, evicted, removed, comm>>
    /\ UNCHANGED <<mutex, mqtt_connected, mqtt, next_msg_id, in_flight, published,
                   delivered>>
    /\ UNCHANGED <<clockVars, ctlVars, pinVars, lockVars, jsonVars, sensorVars>>

\* comm_task loop: receive_event returned an event (the queue's contents are
\* left to the environment: some event was waiting), then publish_telemetry
CommReceive ==
    /\ comm.pc = "idle"
    /\ budget.events > 0
    /\ mutex = "free"
    /\ publish_telemetry_insert(n_events + 1, [budget EXCEPT !.events = @ - 1])
    /\ UNCHANGED queueVars

\* the same step with the event taken from event_queue by receive_event
CommReceiveQueued ==
    LET r == queue_receive("event", queues)
    IN  /\ comm.pc = "idle"
        /\ mutex = "free"
        /\ r.ok
        /\ queues' = r.qs
        /\ q_op' = [fn |-> "receive", ch |-> "event", item |-> r.item, ret |-> r.ok,
                    waited |-> FALSE, before |-> queues["event"]]
        /\ publish_telemetry_insert(r.item, budget)
        /\ UNCHANGED q_ghost

\* comm_task before its loop: wifi_init returns once WIFI_CONNECTED_BIT is set
\* (it waits for it with portMAX_DELAY), then mqtt_init starts the MQTT client
WifiGotIp ==
    /\ comm.pc = "wifi_init"
    /\ comm' = CommIdle
    /\ rb_op' = "wifi_up"
    /\ UNCHANGED <<event_buffer, mutex, mqtt_connected, mqtt, next_msg_id, in_flight,
                   n_events, budget, published, removed, evicted, delivered, warnings>>
    /\ UNCHANGED <<clockVars, ctlVars, libVars>>

\* the control logic hands its next event to send_event and ignores the result
\* (control_task.c:51, 65, 123, ...)
ControlEmit ==
    LET event == q_ghost.n_sent + 1
        r == queue_send("event", event, queues)
    IN  /\ "event" \in q_ghost.channels
        /\ q_ghost.n_sent < q_ghost.events
        /\ queues' = r.qs
        /\ q_op' = [fn |-> "send", ch |-> "event", item |-> event, ret |-> r.ok,
                    waited |-> r.waited, before |-> queues["event"]]
        /\ q_ghost' = [q_ghost EXCEPT !.n_sent = event,
                                      !.lost = IF r.ok THEN @ ELSE @ \cup {event}]
        /\ UNCHANGED <<ctlVars, rbVars, pinVars, lockVars, jsonVars, sensorVars>>

\* publish_telemetry: if (mqtt_connected) msg_id = esp_mqtt_client_publish(...)
CommPublish ==
    /\ comm.pc = "pt_check"
    /\ IF mqtt_connected
       THEN \E msg_id \in PublishResults :
               /\ esp_mqtt_client_publish(msg_id, comm.event, "publish_telemetry")
               /\ comm' = IF msg_id >= 0
                          THEN [comm EXCEPT !.pc = "pt_mark", !.msg_id = msg_id]
                          ELSE CommIdle
               /\ rb_op' = IF msg_id >= 0 THEN "pt_publish" ELSE "pt_failed"
       ELSE /\ comm' = CommIdle
            /\ rb_op' = "pt_buffered"
            /\ UNCHANGED <<next_msg_id, in_flight, published, budget>>
    /\ UNCHANGED <<event_buffer, mutex, mqtt_connected, mqtt, n_events, removed, evicted,
                   delivered, warnings>>
    /\ UNCHANGED <<clockVars, ctlVars, libVars>>

\* publish_telemetry: the entry at head - 1 gets the message id and pending = true
CommMark ==
    /\ comm.pc = "pt_mark"
    /\ mutex = "free"
    /\ event_buffer' = mark_last_event_pending(event_buffer, comm.msg_id)
    /\ comm' = CommIdle
    /\ rb_op' = "pt_mark"
    /\ UNCHANGED <<mutex, mqtt_connected, mqtt, next_msg_id, in_flight, n_events, budget,
                   published, removed, evicted, delivered, warnings>>
    /\ UNCHANGED <<clockVars, ctlVars, libVars>>

\* check_pending_timeouts: (current_ticks - buffered->timestamp) >= timeout_ticks,
\* in TickType_t arithmetic
TIMEOUT_MS == 10000
timeout_ticks == pdMS_TO_TICKS(TIMEOUT_MS)
timed_out(buffered, current_ticks) ==
    Ticks(Ticks(current_ticks) - buffered.timestamp) >= timeout_ticks

\* the positions from i on that the loop treats next as pending and timed out.
\* With the clock running (budget.clock) it is the first entry the comparison
\* selects; otherwise the passing of time is left open and any pending entry
\* may be the next one found timed out, budget.timeouts times in all
NextTimedOut(i, current_ticks) ==
    LET pending == {k \in i..(event_buffer.count - 1) :
                       event_buffer.events[Slot(event_buffer.tail + k)].pending}
        due == {k \in pending :
                   timed_out(event_buffer.events[Slot(event_buffer.tail + k)],
                             current_ticks)}
    IN  IF budget.clock
        THEN IF due = {} THEN {} ELSE {Min(due)}
        ELSE IF budget.timeouts > 0 THEN pending ELSE {}

\* check_pending_timeouts without the xSemaphoreGive of line 188: the copy is
\* republished with event_buffer_mutex still held
SweepFrom_publish_locked(i, current_ticks) ==
    \/ /\ budget.clock => NextTimedOut(i, current_ticks) = {}
       /\ mutex' = "free"
       /\ comm' = CommIdle
       /\ rb_op' = "sweep_done"
       /\ UNCHANGED <<event_buffer, budget>>
    \/ \E k \in NextTimedOut(i, current_ticks) :
          LET index == Slot(event_buffer.tail + k)
              buffered == event_buffer.events[index]
          IN  /\ budget' = IF budget.clock THEN budget
                           ELSE [budget EXCEPT !.timeouts = @ - 1]
              /\ IF mqtt_connected
                 THEN /\ mutex' = "comm"
                      /\ comm' = [CommIdle EXCEPT !.pc = "ct_publish",
                                                  !.event = buffered.event,
                                                  !.old_msg_id = buffered.msg_id,
                                                  !.i = k, !.index = index,
                                                  !.current_ticks = current_ticks]
                      /\ rb_op' = "sweep_timed_out"
                      /\ UNCHANGED event_buffer
                 ELSE /\ mutex' = "comm"
                      /\ event_buffer' =
                             [event_buffer EXCEPT !.events[index].pending = FALSE]
                      /\ comm' = [CommIdle EXCEPT !.pc = "ct_loop", !.i = k + 1,
                                                  !.current_ticks = current_ticks]
                      /\ rb_op' = "sweep_not_pending"

\* check_pending_timeouts: the for loop from position i, with the mutex held, up
\* to the next entry that is pending and has timed out; none: the loop ends and
\* the mutex is released
SweepFrom(i, current_ticks) ==
    \/ /\ budget.clock => NextTimedOut(i, current_ticks) = {}
       /\ mutex' = "free"
       /\ comm' = CommIdle
       /\ rb_op' = "sweep_done"
       /\ UNCHANGED <<event_buffer, budget>>
    \/ \E k \in NextTimedOut(i, current_ticks) :
          LET index == Slot(event_buffer.tail + k)
              buffered == event_buffer.events[index]
          IN  /\ budget' = IF budget.clock THEN budget
                           ELSE [budget EXCEPT !.timeouts = @ - 1]
              /\ IF mqtt_connected
                 THEN /\ mutex' = "free"
                      /\ comm' = [CommIdle EXCEPT !.pc = "ct_publish",
                                                  !.event = buffered.event,
                                                  !.old_msg_id = buffered.msg_id,
                                                  !.i = k, !.index = index,
                                                  !.current_ticks = current_ticks]
                      /\ rb_op' = "sweep_timed_out"
                      /\ UNCHANGED event_buffer
                 ELSE /\ mutex' = "comm"
                      /\ event_buffer' =
                             [event_buffer EXCEPT !.events[index].pending = FALSE]
                      /\ comm' = [CommIdle EXCEPT !.pc = "ct_loop", !.i = k + 1,
                                                  !.current_ticks = current_ticks]
                      /\ rb_op' = "sweep_not_pending"

\* comm_task loop: the timeout check is due; current_ticks = xTaskGetTickCount()
CommSweepStart ==
    /\ comm.pc = "idle"
    /\ mutex = "free"
    /\ SweepFrom(0, tick_count)
    /\ UNCHANGED <<mqtt_connected, mqtt, next_msg_id, in_flight, n_events, published,
                   removed, evicted, delivered, warnings>>
    /\ UNCHANGED <<clockVars, ctlVars, libVars>>

CommSweepLoop ==
    /\ comm.pc = "ct_loop"
    /\ mutex = "comm"
    /\ SweepFrom(comm.i, comm.current_ticks)
    /\ UNCHANGED <<mqtt_connected, mqtt, next_msg_id, in_flight, n_events, published,
                   removed, evicted, delivered, warnings>>
    /\ UNCHANGED <<clockVars, ctlVars, libVars>>

\* check_pending_timeouts: republish of the copy, mutex released
CommSweepPublish ==
    /\ comm.pc = "ct_publish"
    /\ \E msg_id \in PublishResults :
          /\ esp_mqtt_client_publish(msg_id, comm.event, "check_pending_timeouts")
          /\ comm' = [comm EXCEPT !.pc = "ct_recheck", !.msg_id = msg_id]
          /\ rb_op' = IF msg_id >= 0 THEN "sweep_publish" ELSE "sweep_failed"
    /\ UNCHANGED <<event_buffer, mutex, mqtt_connected, mqtt, n_events, removed, evicted,
                   delivered, warnings>>
    /\ UNCHANGED <<clockVars, ctlVars, libVars>>

\* check_pending_timeouts: the update after the mutex is taken again
recheck(buf, i, index, old_msg_id, msg_id, current_ticks) ==
    IF /\ i < buf.count
       /\ buf.events[index].pending
       /\ buf.events[index].msg_id = old_msg_id
    THEN IF msg_id >= 0
         THEN [buf EXCEPT !.events[index].msg_id = msg_id,
                          !.events[index].timestamp = Ticks(current_ticks),
                          !.events[index].sent = current_ticks]
         ELSE [buf EXCEPT !.events[index].pending = FALSE]
    ELSE buf

CommSweepRecheck ==
    /\ comm.pc = "ct_recheck"
    /\ mutex = "free"
    /\ mutex' = "comm"
    /\ event_buffer' = recheck(event_buffer, comm.i, comm.index, comm.old_msg_id,
                               comm.msg_id, comm.current_ticks)
    /\ comm' = [CommIdle EXCEPT !.pc = "ct_loop", !.i = comm.i + 1,
                                !.current_ticks = comm.current_ticks]
    /\ rb_op' = "sweep_recheck"
    /\ UNCHANGED <<mqtt_connected, mqtt, next_msg_id, in_flight, n_events, budget,
                   published, removed, evicted, delivered, warnings>>
    /\ UNCHANGED <<clockVars, ctlVars, libVars>>

\* mqtt_event_handler, MQTT_EVENT_CONNECTED: mqtt_connected = true, then the flush
MqttConnected ==
    /\ mqtt.pc = "idle"
    /\ comm.pc # "wifi_init"
    /\ ~mqtt_connected
    /\ mqtt_connected' = TRUE
    /\ mqtt' = [MqttIdle EXCEPT !.pc = "fl_has"]
    /\ rb_op' = "connected"
    /\ UNCHANGED <<event_buffer, mutex, comm, next_msg_id, in_flight, n_events, budget,
                   published, removed, evicted, delivered, warnings>>
    /\ UNCHANGED <<clockVars, ctlVars, libVars>>

\* flush_buffered_events: if (!has_buffered_events()) return
FlushHas ==
    /\ mqtt.pc = "fl_has"
    /\ mutex = "free"
    /\ mqtt' = IF has_buffered_events(event_buffer)
               THEN [mqtt EXCEPT !.pc = "fl_find"]
               ELSE MqttIdle
    /\ rb_op' = "fl_has"
    /\ UNCHANGED <<event_buffer, mutex, mqtt_connected, comm, next_msg_id, in_flight,
                   n_events, budget, published, removed, evicted, delivered, warnings>>
    /\ UNCHANGED <<clockVars, ctlVars, libVars>>

\* flush_buffered_events: while ((event_index = find_next_non_pending_event(&event)) >= 0)
FlushFind ==
    /\ mqtt.pc = "fl_find"
    /\ mutex = "free"
    /\ LET event_index == find_next_non_pending_event(event_buffer)
       IN  mqtt' = IF event_index >= 0
                   THEN [MqttIdle EXCEPT !.pc = "fl_publish", !.index = event_index,
                                         !.event = event_buffer.events[event_index].event]
                   ELSE MqttIdle
    /\ rb_op' = "fl_find"
    /\ UNCHANGED <<event_buffer, mutex, mqtt_connected, comm, next_msg_id, in_flight,
                   n_events, budget, published, removed, evicted, delivered, warnings>>
    /\ UNCHANGED <<clockVars, ctlVars, libVars>>

\* flush_buffered_events: the loop body up to the call of mark_event_pending
FlushPublish ==
    /\ mqtt.pc = "fl_publish"
    /\ IF ~mqtt_connected
       THEN /\ mqtt' = MqttIdle
            /\ rb_op' = "fl_disconnected"
            /\ UNCHANGED <<next_msg_id, in_flight, published, budget>>
       ELSE \E json_ok \in JsonResults :
               IF json_ok
               THEN \E msg_id \in PublishResults :
                       /\ esp_mqtt_client_publish(msg_id, mqtt.event, "flush_buffered_events")
                       /\ mqtt' = IF msg_id >= 0
                                  THEN [mqtt EXCEPT !.pc = "fl_mark", !.msg_id = msg_id]
                                  ELSE MqttIdle
                       /\ rb_op' = IF msg_id >= 0 THEN "fl_publish" ELSE "fl_failed"
               ELSE /\ mqtt' = [MqttIdle EXCEPT !.pc = "fl_find"]
                    /\ budget' = [budget EXCEPT !.faults = @ - 1]
                    /\ rb_op' = "fl_json_failed"
                    /\ UNCHANGED <<next_msg_id, in_flight, published>>
    /\ UNCHANGED <<event_buffer, mutex, mqtt_connected, comm, n_events, removed, evicted,
                   delivered, warnings>>
    /\ UNCHANGED <<clockVars, ctlVars, libVars>>

\* flush_buffered_events: mark_event_pending(event_index, msg_id)
FlushMark ==
    /\ mqtt.pc = "fl_mark"
    /\ mutex = "free"
    /\ event_buffer' = mark_event_pending(event_buffer, mqtt.index, mqtt.msg_id)
    /\ mqtt' = [mqtt EXCEPT !.pc = "fl_find"]
    /\ rb_op' = "fl_mark"
    /\ UNCHANGED <<mutex, mqtt_connected, comm, next_msg_id, in_flight, n_events, budget,
                   published, removed, evicted, delivered, warnings>>
    /\ UNCHANGED <<clockVars, ctlVars, libVars>>

PositionName(buf, i) ==
    IF i = 0 THEN "tail" ELSE IF i = buf.count - 1 THEN "head" ELSE "middle"

\* mqtt_event_handler, MQTT_EVENT_PUBLISHED: mark_event_delivered(event->msg_id)
MqttPublished ==
    /\ mqtt.pc = "idle"
    /\ mutex = "free"
    /\ \E msg_id \in in_flight :
          LET i == delivered_position(event_buffer, msg_id)
              entry == event_buffer.events[Slot(event_buffer.tail + i)]
          IN  /\ in_flight' = in_flight \ {msg_id}
              /\ event_buffer' = mark_event_delivered(event_buffer, msg_id)
              /\ IF i >= 0
                 THEN /\ removed' = [by |-> "ack", event |-> entry.event,
                                     msg_id |-> msg_id,
                                     pos |-> PositionName(event_buffer, i)]
                      /\ delivered' = delivered \cup {entry.event}
                      /\ rb_op' = "ack"
                 ELSE /\ rb_op' = "ack_unknown"
                      /\ UNCHANGED <<removed, delivered>>
    /\ UNCHANGED <<mutex, mqtt_connected, comm, mqtt, next_msg_id, n_events, budget,
                   published, evicted, warnings>>
    /\ UNCHANGED <<clockVars, ctlVars, libVars>>

\* mqtt_event_handler, MQTT_EVENT_DISCONNECTED and MQTT_EVENT_ERROR
MqttDisconnected ==
    /\ mqtt.pc = "idle"
    /\ mqtt_connected
    /\ budget.drops > 0
    /\ mqtt_connected' = FALSE
    /\ budget' = [budget EXCEPT !.drops = @ - 1]
    /\ rb_op' = "disconnected"
    /\ UNCHANGED <<event_buffer, mutex, comm, mqtt, next_msg_id, in_flight, n_events,
                   published, removed, evicted, delivered, warnings>>
    /\ UNCHANGED <<clockVars, ctlVars, libVars>>

\* wifi_event_handler, WIFI_EVENT_STA_DISCONNECTED: runs in the event loop task,
\* at any point of the other two
WifiDisconnected ==
    /\ mqtt_connected
    /\ budget.drops > 0
    /\ mqtt_connected' = FALSE
    /\ budget' = [budget EXCEPT !.drops = @ - 1]
    /\ rb_op' = "wifi_disconnected"
    /\ UNCHANGED <<event_buffer, mutex, comm, mqtt, next_msg_id, in_flight, n_events,
                   published, removed, evicted, delivered, warnings>>
    /\ UNCHANGED <<clockVars, ctlVars, libVars>>

\* the tick interrupt: time passes, by one tick, by just under the deadline, or
\* by most of a period of the counter.  The sweep runs every 2 s, so no entry
\* waits a whole period of the counter for it
TickSteps == {1, timeout_ticks - 1, (2 ^ TICK_BITS) - timeout_ticks}

Tick ==
    /\ budget.clock
    /\ budget.ticks > 0
    /\ \E delta \in TickSteps :
          /\ \A k \in 0..(event_buffer.count - 1) :
                LET buffered == event_buffer.events[Slot(event_buffer.tail + k)]
                IN  buffered.pending => tick_count + delta - buffered.sent < 2 ^ TICK_BITS
          /\ tick_count' = tick_count + delta
    /\ budget' = [budget EXCEPT !.ticks = @ - 1]
    /\ rb_op' = "tick"
    /\ UNCHANGED <<event_buffer, mutex, mqtt_connected, comm, mqtt, next_msg_id,
                   in_flight, configTICK_RATE_HZ, n_events, published, removed, evicted,
                   delivered, warnings>>
    /\ UNCHANGED <<ctlVars, libVars>>

CommTask == CommReceive \/ CommPublish \/ CommMark \/ CommSweepStart \/ CommSweepLoop
                \/ CommSweepPublish \/ CommSweepRecheck

Flush == FlushHas \/ FlushFind \/ FlushPublish \/ FlushMark

----------------------------------------------------------------------------
(* SpecSM: state_machine_process_event on every sequence of events *)

SMStep ==
    \E event \in SafeEvents :
        /\ steps < MaxSteps
        /\ safe_sm' = state_machine_process_event(safe_sm, event)
        /\ wrongs' = WrongsAfter(safe_sm, event, safe_sm')
        /\ prev' = safe_sm
        /\ op' = OpEvent(event)
        /\ steps' = steps + 1
        /\ emitted' = <<>>
        /\ streak' = NoStreak
        /\ UNCHANGED <<led, pin_buffer, current_pin, pm_pin, nvs_pin, movement_threshold>>
        /\ UNCHANGED <<rbVars, libVars>>

----------------------------------------------------------------------------
(* pin_manager.c: the PIN store.  pin_manager_verify and                    *)
(* pin_manager_validate are single steps (verify compares a copy of         *)
(* current_pin taken under pin_mutex).  pin_manager_set is three steps: the *)
(* validation, save_pin_to_nvs (which runs without pin_mutex), and the      *)
(* update of current_pin under pin_mutex; other flows can run in between.   *)

\* constant_time_strcmp of pin_manager.c.  Result: [diff, steps], steps being
\* the number of a[i] ^ b[i] comparisons performed.
RECURSIVE pin_strcmp_loop_early_exit(_, _, _, _)
pin_strcmp_loop_early_exit(a, b, i, r) ==
    LET x == [diff  |-> BitOr(r.diff, BitXor(CharAt(a, i), CharAt(b, i))),
              steps |-> r.steps + 1]
    IN  IF CharAt(a, i) # 0 /\ CharAt(b, i) # 0 /\ x.diff = 0
        THEN pin_strcmp_loop_early_exit(a, b, i + 1, x)
        ELSE x

RECURSIVE pin_strcmp_loop(_, _, _, _)
pin_strcmp_loop(a, b, i, r) ==
    LET x == [diff  |-> BitOr(r.diff, BitXor(CharAt(a, i), CharAt(b, i))),
              steps |-> r.steps + 1]
    IN  IF CharAt(a, i) # 0 /\ CharAt(b, i) # 0
        THEN pin_strcmp_loop(a, b, i + 1, x)
        ELSE x

pin_constant_time_strcmp(a, b) == pin_strcmp_loop(a, b, 1, [diff |-> 0, steps |-> 0])

\* Result: [ret, steps].
pin_manager_verify_prefix(entered_pin, stored) ==
    IF entered_pin = NULL THEN [ret |-> FALSE, steps |-> 0]
    ELSE LET pin_copy == strncpy(stored, MAX_PIN_LENGTH)
             r == pin_constant_time_strcmp(strncpy(entered_pin, Len(pin_copy)), pin_copy)
         IN  [ret |-> r.diff = 0, steps |-> r.steps]

pin_manager_verify(entered_pin, stored) ==
    IF entered_pin = NULL THEN [ret |-> FALSE, steps |-> 0]
    ELSE LET pin_copy == strncpy(stored, MAX_PIN_LENGTH)
             r == pin_constant_time_strcmp(entered_pin, pin_copy)
         IN  [ret |-> r.diff = 0, steps |-> r.steps]

(* Inputs *)
MaxCandidateLen == 5
PinChars == {"0", "9", "/"}
ValidateChars == {"0", "9", "/", ":"}

RECURSIVE StringsOfLen(_, _)
StringsOfLen(chars, n) ==
    IF n = 0 THEN {<<>>}
    ELSE {Append(s, c) : s \in StringsOfLen(chars, n - 1), c \in chars}

StringsUpTo(chars, n) == UNION {StringsOfLen(chars, k) : k \in 0..n}

PinCandidates == {NULL} \cup StringsUpTo(PinChars, MaxCandidateLen)
ValidateCandidates == {NULL} \cup StringsUpTo(ValidateChars, MaxCandidateLen)

StoredPins == {CORRECT_PIN} \cup {s \in StringsOfLen(PinChars, PIN_LENGTH) : AllDigits(s)}

NumFlows == 2
Flows == 1..NumFlows
SetInputs == {<<"0", "0", "0", "0">>, <<"9", "9", "9", "9">>, <<"0", "0", "/", "0">>,
              <<"0", "0", "0">>, NULL}

FlowIdle == [pc |-> "idle", new_pin |-> <<>>, outcome |-> "none"]
NoPinOp == [fn |-> "init", flow |-> 0, arg |-> <<>>, ret |-> FALSE, steps |-> 0,
            stored |-> <<>>, outcome |-> "none"]
PinOp(fn, f, arg, ret, n) ==
    [fn |-> fn, flow |-> f, arg |-> arg, ret |-> ret, steps |-> n, stored |-> pm_pin,
     outcome |-> "none"]

NoPinBudget == [calls |-> 0, faults |-> 0, pure |-> FALSE]

\* the state pin_manager_init leaves: current_pin holds the PIN found in NVS
InitPin(b, pin) ==
    /\ pm_pin = pin
    /\ nvs_pin = pin
    /\ pin_flow = [f \in Flows |-> FlowIdle]
    /\ pin_op = NoPinOp
    /\ pin_budget = b

pinFrame == <<safe_sm, led, pin_buffer, current_pin, movement_threshold,
              emitted, op, prev, wrongs, streak, steps, rbVars, queueVars,
              lockVars, jsonVars, sensorVars>>

PinVerify ==
    \E entered_pin \in PinCandidates :
        LET r == pin_manager_verify(entered_pin, pm_pin)
        IN  /\ pin_budget.pure
            /\ pin_op' = PinOp("verify", 0, entered_pin, r.ret, r.steps)
            /\ pin_budget' = [pin_budget EXCEPT !.pure = FALSE]
            /\ UNCHANGED <<pm_pin, nvs_pin, pin_flow>>
            /\ UNCHANGED pinFrame

PinValidate ==
    \E pin \in ValidateCandidates :
        /\ pin_budget.pure
        /\ pin_op' = PinOp("validate", 0, pin, pin_manager_validate(pin), 0)
        /\ pin_budget' = [pin_budget EXCEPT !.pure = FALSE]
        /\ UNCHANGED <<pm_pin, nvs_pin, pin_flow>>
        /\ UNCHANGED pinFrame

\* pin_manager_set up to the return after a failed validation
PinSetCall(f) ==
    \E new_pin \in SetInputs :
        /\ pin_flow[f].pc = "idle"
        /\ pin_budget.calls > 0
        /\ pin_budget' = [pin_budget EXCEPT !.calls = @ - 1]
        /\ IF pin_manager_validate(new_pin)
           THEN /\ pin_flow' = [pin_flow EXCEPT ![f] = [FlowIdle EXCEPT !.pc = "save",
                                                                        !.new_pin = new_pin]]
                /\ pin_op' = PinOp("set_validated", f, new_pin, TRUE, 0)
           ELSE /\ pin_flow' = [pin_flow EXCEPT ![f] = FlowIdle]
                /\ pin_op' = PinOp("set_return", f, new_pin, FALSE, 0)
        /\ UNCHANGED <<pm_pin, nvs_pin>>
        /\ UNCHANGED pinFrame

\* save_pin_to_nvs, and the return of pin_manager_set when it failed
PinSetSave(f) ==
    \E outcome \in (IF pin_budget.faults > 0 THEN NvsOutcomes ELSE {"ok"}) :
        LET r == save_pin_to_nvs(pin_flow[f].new_pin, nvs_pin, outcome)
        IN  /\ pin_flow[f].pc = "save"
            /\ nvs_pin' = r.nvs
            /\ pin_budget' = [pin_budget EXCEPT !.faults = IF outcome = "ok" THEN @ ELSE @ - 1]
            /\ IF r.ok
               THEN /\ pin_flow' = [pin_flow EXCEPT ![f].pc = "update", ![f].outcome = outcome]
                    /\ pin_op' = PinOp("set_saved", f, pin_flow[f].new_pin, TRUE, 0)
               ELSE /\ pin_flow' = [pin_flow EXCEPT ![f] = FlowIdle]
                    /\ pin_op' = [PinOp("set_return", f, pin_flow[f].new_pin, FALSE, 0)
                                     EXCEPT !.outcome = outcome]
            /\ UNCHANGED pm_pin
            /\ UNCHANGED pinFrame

\* the update of current_pin under pin_mutex, and the return
PinSetUpdate(f) ==
    /\ pin_flow[f].pc = "update"
    /\ pm_pin' = strncpy(pin_flow[f].new_pin, MAX_PIN_LENGTH - 1)
    /\ pin_flow' = [pin_flow EXCEPT ![f] = FlowIdle]
    /\ pin_op' = [PinOp("set_return", f, pin_flow[f].new_pin, TRUE, 0)
                     EXCEPT !.outcome = pin_flow[f].outcome]
    /\ UNCHANGED <<nvs_pin, pin_budget>>
    /\ UNCHANGED pinFrame

\* Start-up: current_pin is the zeroed array, pin_manager_init has not run,
\* and the flash holds nothing or a string an earlier firmware left there.
NvsContents == {NULL, <<"9", "9", "9", "9">>, <<"0", "0", "0">>, <<"0", "0", "/", "0">>,
                <<"0", "0", "0", "0", "0">>, <<"0", "0", "0", "0", "0", "0", "0", "0">>}
DefaultPins == {CORRECT_PIN, <<"1", "2", "3">>, NULL}

InitPinBoot(faults) ==
    /\ pm_pin = <<>>
    /\ nvs_pin \in NvsContents
    /\ pin_flow = [f \in Flows |-> FlowIdle]
    /\ pin_op = [NoPinOp EXCEPT !.fn = "boot"]
    /\ pin_budget = [calls |-> 0, faults |-> faults, pure |-> FALSE]

\* pin_manager_init(default_pin), once; calls of pin_manager_set follow a
\* successful initialisation.
PinInit(calls) ==
    \E default_pin \in DefaultPins, mutex_created \in BOOLEAN, load \in LoadOutcomes,
       save \in (IF pin_budget.faults > 0 THEN NvsOutcomes ELSE {"ok"}) :
        LET r == pin_manager_init(default_pin, pm_pin, nvs_pin, mutex_created, load, save)
        IN  /\ pin_op.fn = "boot"
            /\ pm_pin' = r.ram
            /\ nvs_pin' = r.nvs
            /\ pin_op' = [fn |-> "pin_manager_init", flow |-> 0, arg |-> default_pin,
                          ret |-> r.ok, steps |-> 0, stored |-> nvs_pin, outcome |-> load]
            /\ pin_budget' = [pin_budget EXCEPT !.calls = IF r.ok THEN calls ELSE 0]
            /\ UNCHANGED pin_flow
            /\ UNCHANGED pinFrame

PinSet == \E f \in Flows : PinSetCall(f) \/ PinSetSave(f) \/ PinSetUpdate(f)

(***************************************************************************)
(* The three kinds of mutex and the functions that take them.  A task      *)
(* calls one of its functions; the function's xSemaphoreTake and            *)
(* xSemaphoreGive calls are its steps.  A take with portMAX_DELAY waits    *)
(* until the mutex is free; a take with a timeout returns an error instead.*)
(***************************************************************************)
LockNames == {"control_task.pin_mutex",     \* control_task.c:22
              "pin_manager.pin_mutex",      \* pin_manager.c:14
              "event_buffer_mutex",         \* comm_task.c:55
              "i2c_mutex"}                  \* lcd_display.c:23, shared with mpu6050.c:17

LockTasks == {"control_task", "comm_task", "mqtt_task", "lcd_task", "sensor_task",
              "command_handler"}

\* the functions of each task that take a mutex
LockRoutines(t) ==
    CASE t = "control_task" -> {"process_pin_entry", "control_task_set_code",
                                "mpu6050_read_reg"}
      [] t = "comm_task" -> {"buffer_event", "publish_telemetry_mark",
                             "check_pending_timeouts"}
      [] t = "mqtt_task" -> {"has_buffered_events", "find_next_non_pending_event",
                             "mark_event_pending", "mark_event_delivered"}
      [] t = "lcd_task" -> {"lcd_send_command", "lcd_send_data_byte",
                            "rgb_write_register"}
      [] t = "sensor_task" -> {"mpu6050_read_reg", "mpu6050_write_reg"}
      [] t = "command_handler" -> {"pin_manager_verify", "pin_manager_set",
                                   "mpu6050_write_reg"}

Take(l, wait) == [op |-> "take", lock |-> l, wait |-> wait]

Give(l) == [op |-> "give", lock |-> l, wait |-> "none"]

\* process_pin_entry with the display updated inside the critical section
LockProgram_display_under_pin_mutex(fn) ==
    CASE fn = "process_pin_entry" ->
             <<Take("control_task.pin_mutex", "portMAX_DELAY"), Take("i2c_mutex", "1000ms"),
               Give("i2c_mutex"), Give("control_task.pin_mutex")>>
      [] fn = "control_task_set_code" ->
             <<Take("control_task.pin_mutex", "portMAX_DELAY"),
               Give("control_task.pin_mutex")>>
      [] fn \in {"pin_manager_verify", "pin_manager_set"} ->
             <<Take("pin_manager.pin_mutex", "portMAX_DELAY"),
               Give("pin_manager.pin_mutex")>>
      [] fn \in {"buffer_event", "find_next_non_pending_event", "mark_event_pending",
                 "has_buffered_events", "mark_event_delivered",
                 "publish_telemetry_mark"} ->
             <<Take("event_buffer_mutex", "portMAX_DELAY"), Give("event_buffer_mutex")>>
      [] fn = "check_pending_timeouts" ->
             <<Take("event_buffer_mutex", "portMAX_DELAY"),
               Give("event_buffer_mutex"),
               Take("event_buffer_mutex", "portMAX_DELAY"),
               Give("event_buffer_mutex")>>
      [] fn \in {"lcd_send_command", "lcd_send_data_byte", "rgb_write_register",
                 "mpu6050_read_reg", "mpu6050_write_reg"} ->
             <<Take("i2c_mutex", "1000ms"), Give("i2c_mutex")>>

\* the xSemaphoreTake / xSemaphoreGive calls of each function, in program order
LockProgram(fn) ==
    CASE fn \in {"process_pin_entry", "control_task_set_code"} ->
             <<Take("control_task.pin_mutex", "portMAX_DELAY"),
               Give("control_task.pin_mutex")>>
      [] fn \in {"pin_manager_verify", "pin_manager_set"} ->
             <<Take("pin_manager.pin_mutex", "portMAX_DELAY"),
               Give("pin_manager.pin_mutex")>>
      [] fn \in {"buffer_event", "find_next_non_pending_event", "mark_event_pending",
                 "has_buffered_events", "mark_event_delivered",
                 "publish_telemetry_mark"} ->
             <<Take("event_buffer_mutex", "portMAX_DELAY"), Give("event_buffer_mutex")>>
      [] fn = "check_pending_timeouts" ->
             <<Take("event_buffer_mutex", "portMAX_DELAY"),   \* line 174
               Give("event_buffer_mutex"),                    \* line 188
               Take("event_buffer_mutex", "portMAX_DELAY"),   \* line 201
               Give("event_buffer_mutex")>>                   \* line 229
      [] fn \in {"lcd_send_command", "lcd_send_data_byte", "rgb_write_register",
                 "mpu6050_read_reg", "mpu6050_write_reg"} ->
             <<Take("i2c_mutex", "1000ms"), Give("i2c_mutex")>>

\* the positions control can reach after the call at position i: the next call,
\* and in check_pending_timeouts the loop's two ways on (an entry to republish:
\* the give of line 188; none left: the give of line 229)
LockNextPc(fn, i) ==
    IF fn = "check_pending_timeouts" /\ i \in {1, 3} THEN {2, 4} ELSE {i + 1}

LockIdle == [fn |-> "idle", i |-> 0]

LockOp(t) == LockProgram(lock_pc[t].fn)[lock_pc[t].i]

InitLocks ==
    /\ lock_owner = [l \in LockNames |-> "none"]
    /\ lock_pc = [t \in LockTasks |-> LockIdle]

lockFrame == <<ctlVars, rbVars, pinVars, queueVars, jsonVars, sensorVars>>

\* a task enters one of its functions
LockCall(t) ==
    /\ lock_pc[t] = LockIdle
    /\ \E fn \in LockRoutines(t) : lock_pc' = [lock_pc EXCEPT ![t] = [fn |-> fn, i |-> 1]]
    /\ UNCHANGED lock_owner
    /\ UNCHANGED lockFrame

\* the function's next xSemaphoreTake (it succeeds once the mutex is free) or
\* xSemaphoreGive; after the last one the function returns
LockStep(t) ==
    /\ lock_pc[t] # LockIdle
    /\ LET fn == lock_pc[t].fn
           o == LockOp(t)
       IN  /\ IF o.op = "take"
              THEN /\ lock_owner[o.lock] = "none"
                   /\ lock_owner' = [lock_owner EXCEPT ![o.lock] = t]
              ELSE lock_owner' = [lock_owner EXCEPT ![o.lock] = "none"]
           /\ \E j \in LockNextPc(fn, lock_pc[t].i) :
                 lock_pc' = [lock_pc EXCEPT ![t] =
                                IF j > Len(LockProgram(fn)) THEN LockIdle
                                ELSE [fn |-> fn, i |-> j]]
    /\ UNCHANGED lockFrame

\* a take with a timeout gives up while another task holds the mutex: the
\* function returns ESP_ERR_TIMEOUT
LockTimeout(t) ==
    /\ lock_pc[t] # LockIdle
    /\ LockOp(t).op = "take"
    /\ LockOp(t).wait # "portMAX_DELAY"
    /\ lock_owner[LockOp(t).lock] # "none"
    /\ lock_pc' = [lock_pc EXCEPT ![t] = LockIdle]
    /\ UNCHANGED lock_owner
    /\ UNCHANGED lockFrame

LockCalls == \E t \in LockTasks : LockCall(t)

LockSteps == \E t \in LockTasks : LockStep(t)

LockTimeouts == \E t \in LockTasks : LockTimeout(t)

(***************************************************************************)
(* json_protocol.c.  A JSON value is a record [t, s, n, b]: its type and,  *)
(* by type, its characters, its number or its truth value.  A command      *)
(* message is what cJSON_ParseWithLength makes of the text: nothing, or an *)
(* object of which the members command, code and sensitivity matter.       *)
(***************************************************************************)
JAbsent == [t |-> "absent", s |-> <<>>, n |-> 0, b |-> FALSE]

JString(s) == [t |-> "string", s |-> s, n |-> 0, b |-> FALSE]

JNumber(n) == [t |-> "number", s |-> <<>>, n |-> n, b |-> FALSE]

JBool(b) == [t |-> "bool", s |-> <<>>, n |-> 0, b |-> b]

STR_lock == <<"l", "o", "c", "k">>
STR_unlock == <<"u", "n", "l", "o", "c", "k">>
STR_set_code == <<"s", "e", "t", "_", "c", "o", "d", "e">>
STR_reset_alarm == <<"r", "e", "s", "e", "t", "_", "a", "l", "a", "r", "m">>
STR_set_sensitivity ==
    <<"s", "e", "t", "_", "s", "e", "n", "s", "i", "t", "i", "v", "i", "t", "y">>
STR_locked == <<"l", "o", "c", "k", "e", "d">>
STR_unlocked == <<"u", "n", "l", "o", "c", "k", "e", "d">>
STR_alarm == <<"a", "l", "a", "r", "m">>
STR_unknown == <<"u", "n", "k", "n", "o", "w", "n">>
STR_state_change == <<"s", "t", "a", "t", "e", "_", "c", "h", "a", "n", "g", "e">>
STR_vibration == <<"v", "i", "b", "r", "a", "t", "i", "o", "n">>
STR_code_entry == <<"c", "o", "d", "e", "_", "e", "n", "t", "r", "y">>
STR_movement == <<"m", "o", "v", "e", "m", "e", "n", "t">>
STR_code_changed == <<"c", "o", "d", "e", "_", "c", "h", "a", "n", "g", "e", "d">>

\* state_to_string
state_to_string(state) ==
    CASE state = "STATE_LOCKED" -> STR_locked
      [] state = "STATE_UNLOCKED" -> STR_unlocked
      [] state = "STATE_ALARM" -> STR_alarm
      [] OTHER -> STR_unknown

NotJson == [parses |-> FALSE, command |-> JAbsent, code |-> JAbsent, sensitivity |-> JAbsent]

JsonObject(command, code, sensitivity) ==
    [parses |-> TRUE, command |-> command, code |-> code, sensitivity |-> sensitivity]

\* json_to_command(json, len, cmd); cmd is what *cmd held before the call.
\* Result: [ok, cmd].
json_to_command(json, cmd) ==
    IF ~json.parses THEN [ok |-> FALSE, cmd |-> cmd]
    ELSE IF json.command.t # "string" THEN [ok |-> FALSE, cmd |-> cmd]
    ELSE LET cmd_str == json.command.s
         IN  IF cmd_str = STR_lock
             THEN [ok |-> TRUE, cmd |-> [cmd EXCEPT !.type = "CMD_LOCK", !.code = <<>>]]
             ELSE IF cmd_str = STR_unlock
             THEN [ok |-> TRUE, cmd |-> [cmd EXCEPT !.type = "CMD_UNLOCK", !.code = <<>>]]
             ELSE IF cmd_str = STR_set_code
             THEN LET typed == [cmd EXCEPT !.type = "CMD_SET_CODE"]
                  IN  IF json.code.t # "string" THEN [ok |-> FALSE, cmd |-> typed]
                      ELSE IF Len(json.code.s) > MAX_PIN_LENGTH - 1
                      THEN [ok |-> FALSE, cmd |-> typed]
                      ELSE [ok |-> TRUE,
                            cmd |-> [typed EXCEPT
                                        !.code = strncpy(json.code.s, MAX_PIN_LENGTH - 1)]]
             ELSE [ok |-> FALSE, cmd |-> cmd]

\* the codes a set_code message is tried with: 4 digits, 5 digits, a letter
\* among the digits, and more characters than cmd->code holds
JsonCodes == { <<"4", "3", "2", "1">>, <<"1", "2", "3", "4", "5">>, <<"1", "2", "a", "4">>,
               <<"1", "2", "3", "4", "5", "6", "7", "8">> }

JsonMessages ==
    {NotJson,
     JsonObject(JAbsent, JAbsent, JAbsent),
     JsonObject(JAbsent, JString(<<"4", "3", "2", "1">>), JAbsent),
     JsonObject(JNumber(1), JAbsent, JAbsent),
     JsonObject(JString(STR_set_code), JAbsent, JAbsent),
     JsonObject(JString(STR_set_code), JNumber(4321), JAbsent),
     JsonObject(JString(STR_set_sensitivity), JAbsent, JNumber(30000))}
    \cup {JsonObject(JString(w), JAbsent, JAbsent) :
             w \in {STR_lock, STR_unlock, STR_reset_alarm, STR_locked}}
    \cup {JsonObject(JString(STR_set_code), JString(c), JAbsent) : c \in JsonCodes}

\* what the command_t on handle_mqtt_command's stack may hold before the call
StackCommands == {Command("CMD_LOCK", <<>>, 0),
                  Command("CMD_SET_SENSITIVITY", <<"9">>, 50000)}

\* the event_t values event_to_json is tried with
EventTypes == {"EVT_STATE_CHANGE", "EVT_MOVEMENT", "EVT_CODE_RESULT", "EVT_CODE_CHANGED"}

Timestamps == {0, 1234}

JsonEvents ==
    [type : EventTypes, timestamp : Timestamps, state : States,
     movement_amount : {0, 15}, code_ok : BOOLEAN]

\* json_protocol.c:44 names EVT_VIBRATION and event->vibration, which
\* queue_manager.h does not declare: the case either matches no event type, or
\* stands for the second enumerator (EVT_MOVEMENT) with a truth value read from
\* the event
EvtVibration == {"none", "EVT_MOVEMENT"}

JsonObjectOf(ts, state, event, vibration, code_ok, movement_amount) ==
    [ts |-> ts, state |-> state, event |-> event, vibration |-> vibration,
     code_ok |-> code_ok, movement_amount |-> movement_amount]

RECURSIVE DecimalDigits(_)
DecimalDigits(n) == IF n < 10 THEN 1 ELSE 1 + DecimalDigits(n \div 10)

\* the number of characters cJSON_PrintUnformatted writes for a value
ValueLength(v) ==
    CASE v.t = "string" -> Len(v.s) + 2
      [] v.t = "number" -> DecimalDigits(v.n)
      [] v.t = "bool" -> IF v.b THEN 4 ELSE 5
      [] OTHER -> 0

\* the length of the text of an object: braces, and for each member its name in
\* quotes, a colon, its value, and a comma between members
ObjectLength(obj) ==
    LET names == [ts |-> 2, state |-> 5, event |-> 5, vibration |-> 9, code_ok |-> 7,
                  movement_amount |-> 15]
        present == {f \in DOMAIN obj : obj[f].t # "absent"}
        member(f) == names[f] + 3 + ValueLength(obj[f])
        RECURSIVE Sum(_)
        Sum(S) == IF S = {} THEN 0
                  ELSE LET f == CHOOSE x \in S : TRUE IN member(f) + Sum(S \ {f})
    IN  2 + Sum(present) + (IF present = {} THEN 0 ELSE Cardinality(present) - 1)

\* event_to_json(event, buffer, buffer_size); alloc tells which of
\* cJSON_CreateObject and cJSON_PrintUnformatted, if any, returns NULL.
\* Result: [len, json], json being the object whose text is in the buffer.
event_to_json(event, EVT_VIBRATION, vibration, alloc) ==
    IF alloc # "ok"
    THEN [len |-> -1,
          json |-> JsonObjectOf(JAbsent, JAbsent, JAbsent, JAbsent, JAbsent, JAbsent)]
    ELSE LET ts == JNumber(event.timestamp)
             state == JString(state_to_string(event.state))
             root ==
                 CASE event.type = "EVT_STATE_CHANGE" ->
                          JsonObjectOf(ts, state, JString(STR_state_change), JAbsent, JAbsent,
                                       JAbsent)
                   [] event.type = EVT_VIBRATION ->
                          JsonObjectOf(ts, state, JString(STR_vibration), JBool(vibration),
                                       JAbsent, JAbsent)
                   [] event.type = "EVT_CODE_RESULT" ->
                          JsonObjectOf(ts, state, JString(STR_code_entry), JAbsent,
                                       JBool(event.code_ok), JAbsent)
                   [] OTHER ->
                          JsonObjectOf(ts, state, JAbsent, JAbsent, JAbsent, JAbsent)
         IN  [len |-> ObjectLength(root), json |-> root]

AllocResults == {"ok", "create_failed", "print_failed"}

MaxCommands == 2

NoJsonOp ==
    [fn |-> "none", msg |-> NotJson, ret |-> FALSE, cmd |-> Command("CMD_LOCK", <<>>, 0),
     sent |-> FALSE,
     event |-> [type |-> "EVT_STATE_CHANGE", timestamp |-> 0, state |-> "STATE_LOCKED",
                movement_amount |-> 0, code_ok |-> FALSE],
     len |-> 0, json |-> JsonObjectOf(JAbsent, JAbsent, JAbsent, JAbsent, JAbsent, JAbsent),
     n |-> 0]

InitJson == json_op = NoJsonOp

jsonFrame == <<ctlVars, rbVars, pinVars, lockVars, sensorVars>>

\* comm_task.c: handle_mqtt_command(data, len); send_command(&cmd) is
\* xQueueSend(cmd_queue, &cmd, 0), &cmd not being NULL
HandleMqttCommand ==
    /\ json_op.n < MaxCommands
    /\ \E data \in JsonMessages, cmd \in StackCommands :
          LET r == json_to_command(data, cmd)
              s == xQueueSend(queues["cmd"], CMD_QUEUE_SIZE, r.cmd, 0)
          IN  /\ queues' = IF r.ok THEN [queues EXCEPT !["cmd"] = s.q] ELSE queues
              /\ json_op' = [json_op EXCEPT !.fn = "handle_mqtt_command", !.msg = data,
                                            !.ret = r.ok, !.cmd = r.cmd,
                                            !.sent = r.ok /\ s.ok, !.n = @ + 1]
    /\ UNCHANGED <<q_op, q_ghost>>
    /\ UNCHANGED jsonFrame

\* control_task.c: the loop's receive_command(&cmd, 0) and the command switch
ControlReceiveCommand ==
    /\ queues["cmd"] # <<>>
    /\ LET rcv == queue_receive("cmd", queues)
           r == control_task_command(rcv.item, safe_sm, led, current_pin)
       IN  /\ queues' = rcv.qs
           /\ safe_sm' = r.sm
           /\ led' = r.led
           /\ emitted' = r.out
           /\ current_pin' = r.pin
           /\ prev' = safe_sm
           /\ op' = OpCmd("cmd", rcv.item)
           /\ streak' = NoStreak
           /\ wrongs' = WrongsAfter(safe_sm, "", r.sm)
    /\ UNCHANGED <<pin_buffer, pm_pin, nvs_pin, movement_threshold, steps>>
    /\ UNCHANGED <<q_op, q_ghost>>
    /\ UNCHANGED <<rbVars, pinVars, lockVars, jsonVars, sensorVars>>

\* event_to_json applied to one event
EventToJson ==
    /\ json_op.fn = "none"
    /\ \E event \in JsonEvents, EVT_VIBRATION \in EvtVibration, vibration \in BOOLEAN,
          alloc \in AllocResults :
          LET r == event_to_json(event, EVT_VIBRATION, vibration, alloc)
          IN  json_op' = [json_op EXCEPT !.fn = "event_to_json", !.event = event,
                                         !.len = r.len, !.json = r.json]
    /\ UNCHANGED queueVars
    /\ UNCHANGED jsonFrame

----------------------------------------------------------------------------
(* mpu6050.c: the software movement detector and sensor_task, and the      *)
(* task watchdog as the two loops see it.                                  *)

MOVEMENT_HIT_COUNT == 3
WDT_TIMEOUT_MS == 10000
SEMAPHORE_WAIT_MS == 1000
I2C_TIMEOUT_MS == 1000
DEBOUNCE_DELAY_MS == 500

\* Accelerometer samples <<accel_x, accel_y, accel_z>>: at rest (1 g on z),
\* a shake, a hard shake.
AccelReadings == {<<0, 0, 16384>>, <<12000, 12000, 16384>>, <<20000, 20000, 16384>>}

OverThreshold(accel, threshold) ==
    accel[1] * accel[1] + accel[2] * accel[2] + accel[3] * accel[3] > threshold * threshold

\* mpu6050_movement_detected(): read_ok is the result of mpu6050_read_reg.
\* Result: [ret, movement_hit_count].
mpu6050_movement_detected(initialized, read_ok, accel, hit_count, threshold) ==
    IF ~initialized \/ ~read_ok THEN [ret |-> FALSE, movement_hit_count |-> hit_count]
    ELSE LET counted == IF OverThreshold(accel, threshold)
                        THEN IF hit_count < MOVEMENT_HIT_COUNT THEN hit_count + 1 ELSE hit_count
                        ELSE IF hit_count > 0 THEN hit_count - 1 ELSE hit_count
         IN  IF counted >= MOVEMENT_HIT_COUNT
             THEN [ret |-> TRUE, movement_hit_count |-> 0]
             ELSE [ret |-> FALSE, movement_hit_count |-> counted]

\* History kept beside the counter: for the latest samples that were read,
\* whether each was over the threshold (newest last, at most
\* MOVEMENT_HIT_COUNT of them), the last sample, and what the last call
\* returned.
Recent(recent, over) ==
    LET all == Append(recent, over)
    IN  IF Len(all) > MOVEMENT_HIT_COUNT THEN Tail(all) ELSE all

MpuCall(m, read_ok, accel, threshold) ==
    LET r == mpu6050_movement_detected(m.initialized, read_ok, accel,
                                       m.movement_hit_count, threshold)
    IN  [m EXCEPT !.movement_hit_count = r.movement_hit_count,
                  !.ret = r.ret,
                  !.called = TRUE,
                  !.accel = IF m.initialized /\ read_ok THEN accel ELSE @,
                  !.recent = IF m.initialized /\ read_ok
                             THEN Recent(@, OverThreshold(accel, threshold)) ELSE @]

InitMpu(initialized) ==
    mpu = [initialized |-> initialized, movement_hit_count |-> 0, recent |-> <<>>,
           accel |-> <<0, 0, 0>>, ret |-> FALSE, called |-> FALSE]

WatchedTasks == {"control_task", "sensor_task"}

\* After the tasks have started: sensor_task has called esp_task_wdt_add,
\* control_task has not.
InitWdt ==
    wdt = [added |-> {"sensor_task"},
           since |-> [t \in {"sensor_task"} |-> 0],
           fed |-> [t \in WatchedTasks |-> FALSE],
           pc |-> "take",
           done |-> "none"]

InitSensor == InitMpu(TRUE) /\ InitWdt

\* esp_task_wdt_reset() by task t: a no-op for a task that is not subscribed.
esp_task_wdt_reset(w, t) ==
    [w EXCEPT !.since = [u \in DOMAIN w.since |-> IF u = t THEN 0 ELSE w.since[u]],
              !.fed = [@ EXCEPT ![t] = TRUE]]

\* Time d passes for task t; a new iteration forgets the last one's reset.
Elapse(w, t, d) ==
    [w EXCEPT !.since = [u \in DOMAIN w.since |-> IF u = t THEN w.since[u] + d ELSE w.since[u]]]

\* The watchdog fires for a subscribed task that was not reset in time.
WatchdogExpired == \E t \in wdt.added : wdt.since[t] >= WDT_TIMEOUT_MS

\* mpu6050_movement_detected() called on its own (control_task.c calls it
\* while the safe is locked).
MovementDetected ==
    /\ \E read_ok \in BOOLEAN, accel \in AccelReadings :
          mpu' = MpuCall(mpu, read_ok, accel, movement_threshold)
    /\ UNCHANGED <<wdt, ctlVars, rbVars, pinVars, queueVars, lockVars, jsonVars>>

\* sensor_task: xSemaphoreTake(motion_semaphore, 1000 ms).
SensorTake ==
    /\ wdt.pc = "take"
    /\ \E waited \in {0, SEMAPHORE_WAIT_MS \div 2, SEMAPHORE_WAIT_MS} :
          wdt' = [Elapse(wdt, "sensor_task", waited) EXCEPT
                     !.pc = IF waited < SEMAPHORE_WAIT_MS THEN "reset_taken" ELSE "reset_timeout",
                     !.fed = [@ EXCEPT !["sensor_task"] = FALSE],
                     !.done = "none"]
    /\ UNCHANGED <<mpu, ctlVars, rbVars, pinVars, queueVars, lockVars, jsonVars>>

\* sensor_task: esp_task_wdt_reset() in either branch.
SensorReset ==
    /\ wdt.pc \in {"reset_taken", "reset_timeout"}
    /\ wdt' = [esp_task_wdt_reset(wdt, "sensor_task") EXCEPT
                  !.pc = IF wdt.pc = "reset_taken" THEN "read" ELSE "take",
                  !.done = IF wdt.pc = "reset_taken" THEN "none" ELSE "sensor_task"]
    /\ UNCHANGED <<mpu, ctlVars, rbVars, pinVars, queueVars, lockVars, jsonVars>>

\* sensor_task: the rest of the iteration.  Each register read takes up to
\* the mutex wait plus the bus timeout.
ReadTimes == {0, 2 * I2C_TIMEOUT_MS}

SensorRead ==
    /\ wdt.pc = "read"
    /\ \E int_status \in ReadTimes, sample \in ReadTimes, movement \in ReadTimes,
          read_ok \in BOOLEAN, accel \in AccelReadings :
          LET m == MpuCall(mpu, read_ok, accel, movement_threshold)
              d == int_status + sample
                   + (IF m.ret THEN movement + DEBOUNCE_DELAY_MS ELSE 0)
          IN  /\ mpu' = m
              /\ queues' = IF m.ret THEN queue_send("sensor", 1, queues).qs ELSE queues
              /\ wdt' = [Elapse(wdt, "sensor_task", d) EXCEPT
                            !.pc = "take", !.done = "sensor_task"]
    /\ UNCHANGED <<q_op, q_ghost, ctlVars, rbVars, pinVars, lockVars, jsonVars>>

\* control_task: one turn of its loop as the watchdog sees it: the loop
\* body makes no watchdog call.
ControlIteration ==
    /\ wdt' = [wdt EXCEPT !.fed = [@ EXCEPT !["control_task"] = FALSE],
                          !.done = "control_task"]
    /\ UNCHANGED <<mpu, ctlVars, rbVars, pinVars, queueVars, lockVars, jsonVars>>

InitIdle == InitLocks /\ InitJson /\ InitSensor

InitLib == InitPin(NoPinBudget, CORRECT_PIN) /\ InitQueues(NoSends) /\ InitIdle

vars == <<safe_sm, led, pin_buffer, current_pin, pm_pin, nvs_pin, movement_threshold,
          emitted, op, prev, wrongs, streak, steps,
          event_buffer, mutex, mqtt_connected, comm, mqtt, next_msg_id, in_flight,
          tick_count, configTICK_RATE_HZ, n_events, budget, published, removed, evicted, delivered, warnings, rb_op,
          pin_flow, pin_op, pin_budget, queues, q_op, q_ghost,
          lock_owner, lock_pc, json_op, mpu, wdt>>

InitSM == InitCtl /\ InitLib /\ InitRB(NoBudget)
NextSM == SMStep
SpecSM == InitSM /\ [][NextSM]_vars

(* Spec: the control task (control_task.c): keypad, remote commands, motion *)
Init == InitCtl /\ InitLib /\ InitRB(NoBudget)
Next == KeyPress \/ ControlCommand \/ Motion
Spec == Init /\ [][Next]_vars

(* SpecCmd: both command processors (the control loop's switch and         *)
(* command_handler.c) on top of the state machine driven by its events     *)
InitCmd == InitCtl /\ InitLib /\ InitRB(NoBudget)
NextCmd == SMStep \/ ControlCommand \/ CommandHandler
SpecCmd == InitCmd /\ [][NextCmd]_vars

\* the publisher task and the MQTT callbacks, interleaved at every step
MaxEvents == 3
MaxMsgIds == 3
MaxFaults == 1
MaxDrops == 1
MaxTimeouts == 1

InitTasks == InitCtl /\ InitLib /\ InitRB([events |-> MaxEvents, msg_ids |-> MaxMsgIds,
                                faults |-> MaxFaults, drops |-> MaxDrops,
                                timeouts |-> MaxTimeouts,
                                clock |-> FALSE, ticks |-> 0])
NextRB == CommTask \/ Flush \/ MqttConnected \/ MqttPublished \/ MqttDisconnected
              \/ WifiDisconnected
SpecRB == InitTasks /\ [][NextRB]_vars

\* the same tasks with enough events to fill the ring buffer and wrap around
FullEvents == 12
FullMsgIds == 2

InitFull == InitCtl /\ InitLib /\ InitRB([events |-> FullEvents, msg_ids |-> FullMsgIds,
                               faults |-> MaxFaults, drops |-> MaxDrops,
                               timeouts |-> MaxTimeouts,
                                clock |-> FALSE, ticks |-> 0])
SpecFull == InitFull /\ [][NextRB]_vars

\* the same tasks with the tick counter running: timeouts are decided by the
\* program's comparison of tick counts
TimeEvents == 1
TimeMsgIds == 2
MaxTicks == 3

InitTime == InitCtl /\ InitLib /\ InitRB([events |-> TimeEvents, msg_ids |-> TimeMsgIds,
                               faults |-> MaxFaults, drops |-> MaxDrops,
                               timeouts |-> 0, clock |-> TRUE, ticks |-> MaxTicks])
NextTime == NextRB \/ Tick
SpecTime == InitTime /\ [][NextTime]_vars

\* the same tasks under the scheduling the program runs with: the comm task and
\* the MQTT client task are never starved (FreeRTOS tasks of equal standing that
\* block only on the mutex, a delay or the queue), and the broker's
\* acknowledgment of a message in flight is eventually handed to the handler
LiveBudgetEvents == 1
LiveMsgIds == 4

InitLive == InitCtl /\ InitLib /\ InitRB([events |-> LiveBudgetEvents, msg_ids |-> LiveMsgIds,
                               faults |-> MaxFaults, drops |-> MaxDrops,
                               timeouts |-> MaxTimeouts,
                                clock |-> FALSE, ticks |-> 0])
LiveRB == /\ InitLive
          /\ [][NextRB]_vars
          /\ WF_vars(CommTask)
          /\ WF_vars(Flush)
          /\ WF_vars(MqttPublished)

----------------------------------------------------------------------------
(* Claims about the state machine and the control logic *)

EnteredAlarm == prev.current_state # "STATE_ALARM" /\ safe_sm.current_state = "STATE_ALARM"

\* C1: over sequences of PIN events, a step enters Alarm if and only if it is a
\* WrongPin processed while Locked that brings the number of such events since
\* the last reset of wrong_count to the threshold 3.
C1_AlarmIffThirdWrongPin ==
    (op.kind = "event" /\ op.arg \in PinEvents) =>
        (EnteredAlarm <=> /\ prev.current_state = "STATE_LOCKED"
                          /\ op.arg = "EVENT_WRONG_PIN"
                          /\ wrongs = MAX_WRONG_ATTEMPTS)

C1_Witness ==
    /\ op.kind = "event" /\ op.arg = "EVENT_WRONG_PIN"
    /\ EnteredAlarm /\ wrongs = MAX_WRONG_ATTEMPTS

\* The transition table of the specification (section 4.2)
TransitionTable(sm, event) ==
    CASE sm.current_state = "STATE_LOCKED" /\ event = "EVENT_CORRECT_PIN" ->
            [current_state |-> "STATE_UNLOCKED", wrong_count |-> 0]
      [] sm.current_state = "STATE_LOCKED" /\ event = "EVENT_WRONG_PIN" ->
            [current_state |-> IF sm.wrong_count + 1 >= 3 THEN "STATE_ALARM"
                               ELSE "STATE_LOCKED",
             wrong_count |-> sm.wrong_count + 1]
      [] sm.current_state = "STATE_LOCKED" /\ event = "EVENT_MOVEMENT" ->
            [current_state |-> "STATE_ALARM", wrong_count |-> sm.wrong_count]
      [] sm.current_state = "STATE_UNLOCKED" /\ event = "EVENT_CORRECT_PIN" ->
            [current_state |-> "STATE_LOCKED", wrong_count |-> 0]
      [] sm.current_state = "STATE_ALARM" /\ event = "EVENT_CORRECT_PIN" ->
            [current_state |-> "STATE_LOCKED", wrong_count |-> 0]
      [] OTHER -> sm

\* C2: the initial state is Locked, and every event applied in every state gives
\* exactly the next state and wrong_count of the transition table.
C2_TransitionTable ==
    /\ op.kind = "init" => safe_sm.current_state = "STATE_LOCKED"
    /\ op.kind = "event" => safe_sm = TransitionTable(prev, op.arg)

C2_Witness ==
    /\ op.kind = "event" /\ op.arg = "EVENT_CORRECT_PIN"
    /\ prev.current_state = "STATE_UNLOCKED"
    /\ safe_sm.current_state = "STATE_LOCKED"

\* every (state, event) pair of the table is applied
C2_PairsCovered(st, event) ==
    op.kind = "event" /\ op.arg = event /\ prev.current_state = st

RemoteTarget(type) ==
    CASE type = "CMD_LOCK" -> [from |-> "STATE_UNLOCKED", to |-> "STATE_LOCKED"]
      [] type = "CMD_UNLOCK" -> [from |-> "STATE_LOCKED", to |-> "STATE_UNLOCKED"]
      [] type = "CMD_RESET_ALARM" -> [from |-> "STATE_ALARM", to |-> "STATE_LOCKED"]

IsRemoteStateCommand ==
    /\ op.kind \in {"cmd", "cmdh"}
    /\ op.arg \in {"CMD_LOCK", "CMD_UNLOCK", "CMD_RESET_ALARM"}

\* C3: Lock acts only from Unlocked, Unlock only from Locked, ResetAlarm only
\* from Alarm (and resets wrong_count); in any other state the command leaves
\* state and wrong_count unchanged and emits no state-change event.
C3_RemoteCommands ==
    IsRemoteStateCommand =>
        IF prev.current_state = RemoteTarget(op.arg).from
        THEN /\ safe_sm.current_state = RemoteTarget(op.arg).to
             /\ op.arg = "CMD_RESET_ALARM" => safe_sm.wrong_count = 0
        ELSE /\ safe_sm = prev
             /\ CountOf(emitted, IsStateChange) = 0

C3_Witness ==
    /\ op.kind = "cmdh" /\ op.arg = "CMD_UNLOCK"
    /\ prev.current_state = "STATE_ALARM" /\ prev.wrong_count = MAX_WRONG_ATTEMPTS
    /\ safe_sm = prev

IsCodeResult(e) == e.type = "EVT_CODE_RESULT"

\* C4: every step that changes the state emits exactly one state_change event
\* carrying the new state; every submitted PIN emits exactly one code_entry
\* event whose code_ok says whether the PIN matched, whatever the state and
\* whether or not the state changed.
C4_Telemetry ==
    /\ prev.current_state # safe_sm.current_state =>
          /\ CountOf(emitted, IsStateChange) = 1
          /\ \A i \in 1..Len(emitted) :
                IsStateChange(emitted[i]) => emitted[i].state = safe_sm.current_state
    /\ op.kind = "pin" =>
          /\ CountOf(emitted, IsCodeResult) = 1
          /\ \A i \in 1..Len(emitted) :
                IsCodeResult(emitted[i]) => emitted[i].code_ok = (op.pin = current_pin)

C4_Witness ==
    /\ op.kind = "pin" /\ op.pin # current_pin
    /\ prev.current_state = "STATE_UNLOCKED" /\ safe_sm = prev
    /\ emitted = <<CodeResultEvent(safe_sm, FALSE)>>

\* C5: from Locked with wrong_count 0, three consecutive wrong PINs emit three
\* code_entry events with code_ok false and one state_change, to alarm, and the
\* state is Alarm after the third attempt and not before.
C5_ThreeWrongPins ==
    /\ streak.n \in 1..(MAX_WRONG_ATTEMPTS - 1) =>
          /\ safe_sm.current_state = "STATE_LOCKED"
          /\ streak.code_false = streak.n
          /\ streak.state_change = 0
    /\ streak.n = MAX_WRONG_ATTEMPTS =>
          /\ safe_sm.current_state = "STATE_ALARM"
          /\ streak.code_false = 3
          /\ streak.state_change = 1
          /\ op.kind = "pin" =>
                \E i \in 1..Len(emitted) : emitted[i] = StateChangeEvent(safe_sm)

C5_Witness ==
    /\ op.kind = "pin" /\ streak.n = MAX_WRONG_ATTEMPTS
    /\ safe_sm.current_state = "STATE_ALARM"


----------------------------------------------------------------------------
(* Telemetry ring buffer *)

\* C6: an entry removed by an acknowledgment was removed by the acknowledgment
\* of a publish of that same entry's event, under every interleaving of the
\* publisher task with the link callbacks.
C6_RemovedOnlyByOwnAck ==
    removed.by = "ack" => published[removed.msg_id].event = removed.event

\* C10: an acknowledgment for delivery id d that finds a pending entry carrying
\* d finds exactly one such entry (at the tail, at the head or in the middle),
\* removes it, decreases count by one, and leaves every other entry present,
\* unmodified and in the same tail-to-head order.
C10_AckRemovesExactlyThatEntry ==
    [][rb_op' = "ack" =>
         LET d == removed'.msg_id
             before == Live(event_buffer)
             after == Live(event_buffer')
         IN  /\ event_buffer'.count = event_buffer.count - 1
             /\ \E k \in 1..Len(before) :
                   /\ before[k].pending /\ before[k].msg_id = d
                   /\ before[k].event = removed'.event
                   /\ \A j \in 1..Len(before) :
                         (before[j].pending /\ before[j].msg_id = d) => j = k
                   /\ after = SubSeq(before, 1, k - 1) \o SubSeq(before, k + 1, Len(before))
    ]_vars

C10_Witness ==
    /\ rb_op = "ack"
    /\ removed.pos = "middle"
    /\ event_buffer.count = 2

Inserted == 1..n_events

\* the original reading of C8: whenever N inserts and M acknowledged deliveries
\* have happened with N - M > capacity, the buffer holds exactly capacity entries
C8_ExactlyCapacityWhenBacklogged ==
    (n_events - Cardinality(delivered) > EVENT_BUFFER_SIZE)
        => event_buffer.count = EVENT_BUFFER_SIZE

\* C8 (amended): the buffer never holds more than capacity entries; it holds,
\* in insertion order, exactly the inserted events that were neither removed
\* by an acknowledgment nor evicted, and every evicted event is older than every
\* event still held; each insert into a full buffer evicts exactly the oldest
\* entry, records one warning and leaves exactly capacity entries.
C8_EvictsOldestKeepsNewest ==
    /\ [](LET held == BufferedEvents(event_buffer)
          IN  /\ event_buffer.count <= EVENT_BUFFER_SIZE
              /\ \A i, j \in 1..Len(held) : i < j => held[i] < held[j]
              /\ {held[i] : i \in 1..Len(held)} = Inserted \ (delivered \cup evicted)
              /\ \A e \in evicted : \A i \in 1..Len(held) : e < held[i]
              /\ warnings = Cardinality(evicted))
    /\ [][rb_op' = "insert" =>
            LET before == Live(event_buffer)
                after == Live(event_buffer')
                new == [event |-> n_events', msg_id |-> -1, pending |-> FALSE,
                        timestamp |-> Ticks(tick_count), sent |-> tick_count]
            IN  IF event_buffer.count = EVENT_BUFFER_SIZE
                THEN /\ after = Append(Tail(before), new)
                     /\ evicted' = evicted \cup {before[1].event}
                     /\ warnings' = warnings + 1
                     /\ event_buffer'.count = EVENT_BUFFER_SIZE
                ELSE /\ after = Append(before, new)
                     /\ evicted' = evicted
                     /\ warnings' = warnings
       ]_vars

C8_Witness ==
    /\ rb_op = "insert"
    /\ removed.by = "evict"
    /\ warnings = 2
    /\ event_buffer.count = EVENT_BUFFER_SIZE
    /\ event_buffer.tail = 2

\* C9: the reconnect flush marks the entry it has just republished pending=true
\* with the delivery id of that republish: right after mark_event_pending the
\* marked entry is pending, carries the new id, and is the entry whose event
\* was sent under that id.
C9_FlushMarksTheEntryItSent ==
    rb_op = "fl_mark" =>
        /\ event_buffer.events[mqtt.index].pending
        /\ event_buffer.events[mqtt.index].msg_id = mqtt.msg_id
        /\ event_buffer.events[mqtt.index].event = published[mqtt.msg_id].event

AllBufferedPending ==
    \A i \in 0..(event_buffer.count - 1) :
        event_buffer.events[Slot(event_buffer.tail + i)].pending

\* C7: if the link eventually stays connected (publishes then succeed and
\* acknowledgments are delivered), no entry stays pending=false forever: again
\* and again every entry still in the buffer has been handed to the link.
C7_NoEntryStaysUnsentWhileConnected ==
    <>[]mqtt_connected => []<>AllBufferedPending

\* C11: an acknowledgment whose id matches no pending entry (a duplicate, or the
\* id of an entry already removed, demoted or evicted) changes nothing: entries,
\* head, tail and count are as before, and count is never below 0.
C11_UnknownAckIsNoOp ==
    /\ [](event_buffer.count >= 0)
    /\ [][\A d \in in_flight :
            (/\ in_flight' = in_flight \ {d}
             /\ \A k \in 1..event_buffer.count :
                   ~(Live(event_buffer)[k].pending /\ Live(event_buffer)[k].msg_id = d))
            => event_buffer' = event_buffer
       ]_vars

C11_Witness ==
    /\ rb_op = "ack_unknown"
    /\ delivered # {}
    /\ event_buffer.count > 0

----------------------------------------------------------------------------
(* Timeout sweep *)

DeadlineOld(buffered, at) == at - buffered.sent >= timeout_ticks

BufferedAt(k) == event_buffer.events[Slot(event_buffer.tail + k)]

\* C13: whenever a sweep can start, the program's comparison finds a pending
\* entry timed out exactly when at least the 10 s deadline, in ticks, has
\* passed since the send time the entry carries, whichever path recorded it
\* and also across the wrap-around of the tick counter.
C13_TimedOutExactlyAtDeadline ==
    comm.pc = "idle" =>
        \A k \in 0..(event_buffer.count - 1) :
            BufferedAt(k).pending =>
                (timed_out(BufferedAt(k), tick_count)
                     <=> DeadlineOld(BufferedAt(k), tick_count))

\* C12: a sweep handles every entry that is pending and whose recorded send is
\* at least the deadline old: a sweep that ends without finding any entry
\* timed out leaves no such entry behind; an entry found timed out while the
\* link is down is demoted to pending=false; and an entry republished while the
\* link is up, and still in place, stays pending with the new delivery id and
\* the sweep's tick count as its timestamp.
C12_SweepHandlesEveryOverdueEntry ==
    /\ [][(comm.pc = "idle" /\ rb_op' = "sweep_done") =>
             \A k \in 0..(event_buffer.count - 1) :
                 ~(BufferedAt(k).pending /\ DeadlineOld(BufferedAt(k), tick_count))
       ]_vars
    /\ [][rb_op' = "sweep_not_pending" =>
             /\ ~mqtt_connected
             /\ \E k \in 0..(event_buffer.count - 1) :
                   /\ BufferedAt(k).pending
                   /\ event_buffer' = [event_buffer EXCEPT
                          !.events[Slot(event_buffer.tail + k)].pending = FALSE]
       ]_vars
    /\ [][(/\ rb_op' = "sweep_recheck"
           /\ comm.msg_id >= 0
           /\ comm.i < event_buffer.count
           /\ event_buffer.events[comm.index].pending
           /\ event_buffer.events[comm.index].msg_id = comm.old_msg_id) =>
             /\ event_buffer'.events[comm.index].pending
             /\ event_buffer'.events[comm.index].msg_id = comm.msg_id
             /\ event_buffer'.events[comm.index].timestamp = Ticks(comm.current_ticks)
             /\ event_buffer'.events[comm.index].event = published[comm.msg_id].event
       ]_vars

----------------------------------------------------------------------------
(* The PIN store (pin_manager.c) *)

\* SpecPin: flows calling pin_manager_set, interleaved at every step
MaxPinCalls == 3
MaxNvsFaults == 1

InitPinSet == /\ InitCtl
              /\ InitIdle
              /\ InitPin([calls |-> MaxPinCalls, faults |-> MaxNvsFaults, pure |-> FALSE],
                         CORRECT_PIN)
              /\ InitQueues(NoSends)
              /\ InitRB(NoBudget)
NextPin == PinSet
SpecPin == InitPinSet /\ [][NextPin]_vars

\* SpecPinFn: pin_manager_verify or pin_manager_validate applied once to each
\* candidate, for each PIN that can be stored (neither changes the store, so a
\* second call sees what the first saw)
InitPinFn == /\ InitCtl
             /\ InitIdle
             /\ \E pin \in StoredPins :
                    InitPin([calls |-> 0, faults |-> 0, pure |-> TRUE], pin)
             /\ InitQueues(NoSends)
             /\ InitRB(NoBudget)
NextPinFn == PinVerify \/ PinValidate
SpecPinFn == InitPinFn /\ [][NextPinFn]_vars

Digits == {"0", "1", "2", "3", "4", "5", "6", "7", "8", "9"}
FourDigits(s) == s # NULL /\ Len(s) = 4 /\ \A i \in 1..Len(s) : s[i] \in Digits

\* C14: pin_manager_set returns false, without having changed the in-memory
\* PIN, when the new PIN is invalid or when persisting it fails, and true
\* otherwise; the in-memory PIN is written only by a call whose persistent write
\* has succeeded; and only a valid PIN is ever written to persistent storage.
C14_SetFailureLeavesPinUnchanged ==
    /\ [](FourDigits(nvs_pin) /\ FourDigits(pm_pin))
    /\ [][ LET f == pin_op'.flow
           IN  /\ pin_op'.fn = "set_return" =>
                     (pin_op'.ret <=> (FourDigits(pin_op'.arg) /\ pin_op'.outcome = "ok"))
               /\ (pin_op'.fn = "set_return" /\ ~pin_op'.ret) => pm_pin' = pm_pin
               /\ pm_pin' # pm_pin =>
                     /\ pin_flow[f].pc = "update"
                     /\ pin_flow[f].outcome = "ok"
                     /\ pm_pin' = pin_flow[f].new_pin
               /\ pin_flow'[f].pc = "update" =>
                     (pin_op'.fn = "set_saved" /\ pm_pin' = pm_pin)
               /\ nvs_pin' # nvs_pin =>
                     (pin_flow[f].pc = "save" /\ nvs_pin' = pin_flow[f].new_pin)
         ]_vars

C14_Witness ==
    /\ pin_op.fn = "set_return" /\ ~pin_op.ret
    /\ pin_op.outcome \in {"commit_failed", "commit_failed_written"}
    /\ pm_pin = <<"9", "9", "9", "9">>
    /\ pin_op.arg = <<"0", "0", "0", "0">>

\* C15: when every pin_manager_set call has returned, and no NVS call has
\* failed, the persisted PIN equals the in-memory PIN.
C15_PersistedEqualsInMemoryAtRest ==
    (/\ \A f \in Flows : pin_flow[f].pc = "idle"
     /\ pin_budget.faults = MaxNvsFaults)
        => nvs_pin = pm_pin

\* C16: pin_manager_verify returns true if and only if the candidate equals the
\* stored PIN character for character (so never for a null, empty, shorter or
\* longer candidate), and the comparison of the control task's PIN entry path
\* accepts exactly the same candidates.
C16_VerifyIffEqual ==
    pin_op.fn = "verify" =>
        /\ pin_op.stored = pm_pin
        /\ pin_op.ret <=> (pin_op.arg = pm_pin)
        /\ pin_op.arg # NULL =>
              (pin_op.ret <=> (constant_time_strcmp(pin_op.arg, pm_pin) = 0))

C16_Witness ==
    /\ pin_op.fn = "verify" /\ ~pin_op.ret
    /\ pin_op.arg # NULL /\ Len(pin_op.arg) = PIN_LENGTH + 1
    /\ SubSeq(pin_op.arg, 1, PIN_LENGTH) = pm_pin

SameLength(a) == {b \in PinCandidates \ {NULL} : Len(b) = Len(a)}

\* C17: the comparison performs the same number of character comparisons for
\* every candidate of one length against one stored PIN, wherever the first
\* mismatch is and whether or not there is one; in pin_manager.c and in
\* control_task.c alike.
C17_NoEarlyExit ==
    (pin_op.fn = "verify" /\ pin_op.arg # NULL) =>
        \A b \in SameLength(pin_op.arg) :
            /\ pin_manager_verify(b, pm_pin).steps = pin_op.steps
            /\ strcmp_steps(b, pm_pin, 1) = strcmp_steps(pin_op.arg, pm_pin, 1)

\* a candidate that differs from the stored PIN in its first character only,
\* with the stored PIN itself among the candidates it is compared with
C17_Witness ==
    /\ pin_op.fn = "verify" /\ ~pin_op.ret
    /\ pin_op.arg # NULL /\ Len(pin_op.arg) = PIN_LENGTH
    /\ pin_op.arg[1] # pm_pin[1]
    /\ SubSeq(pin_op.arg, 2, PIN_LENGTH) = SubSeq(pm_pin, 2, PIN_LENGTH)
    /\ pm_pin \in SameLength(pin_op.arg)
    /\ pin_op.steps = PIN_LENGTH + 1

\* C18: pin_manager_validate returns true if and only if the candidate has
\* exactly 4 characters, each a digit 0-9; for a null candidate it returns false.
C18_ValidateIffFourDigits ==
    pin_op.fn = "validate" =>
        /\ pin_op.ret <=> FourDigits(pin_op.arg)
        /\ pin_op.arg = NULL => ~pin_op.ret

C18_Witness ==
    /\ pin_op.fn = "validate" /\ ~pin_op.ret
    /\ pin_op.arg # NULL /\ Len(pin_op.arg) = PIN_LENGTH + 1
    /\ \A i \in 1..Len(pin_op.arg) : pin_op.arg[i] \in Digits

----------------------------------------------------------------------------
(* The queues (queue_manager.c) *)

\* SpecQueues: producers and consumers of one channel, for each of the six
\* channels (no function of queue_manager.c touches another channel's queue)
InitOneQueue == /\ InitCtl
                /\ InitIdle
                /\ InitPin(NoPinBudget, CORRECT_PIN)
                /\ \E ch \in Channels : InitQueues([NoSends EXCEPT !.channels = {ch}])
                /\ InitRB(NoBudget)
NextQueues == QueueSend \/ QueueReceive
SpecQueues == InitOneQueue /\ [][NextQueues]_vars

\* C19: on each of the six channels a send of a message never holds the
\* producer; on a full queue it returns failure and leaves the queue's contents
\* as they were (the message is dropped); on a queue that is not full it
\* appends the message and returns success.  No queue exceeds its capacity.
C19_SendNeverBlocks ==
    /\ \A ch \in Channels : Len(queues[ch]) <= QueueSize(ch)
    /\ (q_op.fn = "send" /\ q_op.item # NULL_PTR) =>
          /\ ~q_op.waited
          /\ IF Len(q_op.before) = QueueSize(q_op.ch)
             THEN ~q_op.ret /\ queues[q_op.ch] = q_op.before
             ELSE q_op.ret /\ queues[q_op.ch] = Append(q_op.before, q_op.item)

C19_Witness ==
    /\ q_op.fn = "send" /\ q_op.item = 2 /\ ~q_op.ret
    /\ q_op.ch = "event"
    /\ Len(queues["event"]) = EVENT_QUEUE_SIZE
    /\ queues["event"][EVENT_QUEUE_SIZE] = 1

----------------------------------------------------------------------------
(* From the control logic to the ring buffer *)

\* SpecEvents: the control logic emitting events into event_queue while the
\* comm task starts up (wifi_init), receives, buffers and publishes
MaxSent == 11
EventMsgIds == 1

InitEvents == /\ InitCtl
              /\ InitIdle
              /\ InitPin(NoPinBudget, CORRECT_PIN)
              /\ InitQueues([NoSends EXCEPT !.channels = {"event"}, !.events = MaxSent])
              /\ InitComm([NoBudget EXCEPT !.msg_ids = EventMsgIds],
                          [CommIdle EXCEPT !.pc = "wifi_init"])
NextEvents == ControlEmit \/ WifiGotIp \/ CommReceiveQueued \/ CommPublish \/ CommMark
                  \/ MqttConnected \/ Flush \/ MqttPublished
SpecEvents == InitEvents /\ [][NextEvents]_vars

Range(q) == {q[i] : i \in DOMAIN q}

\* the events buffer_event has stored so far: those still in the ring buffer and
\* those that left it by eviction or by an acknowledgment
EverInserted == Range(BufferedEvents(event_buffer)) \cup evicted \cup delivered

\* C20: every event the control logic has emitted is waiting in event_queue or
\* has been inserted into the ring buffer; none is dropped on the way, whatever
\* the publisher is doing.
C20_NoEventLostBeforeTheBuffer ==
    \A e \in 1..q_ghost.n_sent : e \in Range(queues["event"]) \/ e \in EverInserted

----------------------------------------------------------------------------
(* publish_telemetry and the paths that mark entries *)

PublishedEvents == {published[m].event : m \in DOMAIN published}

\* C21: every event the comm task hands to publish_telemetry is inserted into
\* the ring buffer by that step, as the newest entry with pending=false, and no
\* publish of it has been attempted before; whatever event_to_json returns.
C21_InsertedBeforeAnyPublish ==
    [][ (comm.pc = "idle" /\ budget'.events < budget.events) =>
            /\ n_events' = n_events + 1
            /\ event_buffer'.count > 0
            /\ LET e == Live(event_buffer')[event_buffer'.count]
               IN  e.event = n_events' /\ ~e.pending
            /\ n_events' \notin PublishedEvents
      ]_vars

\* C22: the marking that follows a successful immediate publish changes only
\* the entry inserted by the same publish_telemetry call, which gets the
\* returned delivery id and pending=true; every other entry is left as it was.
C22_MarksTheEntryItInserted ==
    [][ rb_op' = "pt_mark" =>
            LET before == Live(event_buffer)
                after == Live(event_buffer')
            IN  /\ Len(after) = Len(before)
                /\ \A k \in 1..Len(before) :
                      IF before[k].event = comm.event
                      THEN after[k].pending /\ after[k].msg_id = comm.msg_id
                      ELSE after[k] = before[k]
      ]_vars

\* every buffered entry a step changes is, before the step, the entry of event
\* e in the state the path left it in when it dropped the lock (a write to a
\* slot that holds no entry any more is not counted)
OnlyChanges(e, pending, msg_ids) ==
    \A k \in 0..(event_buffer.count - 1) :
        LET s == Slot(event_buffer.tail + k)
        IN  event_buffer'.events[s] # event_buffer.events[s] =>
                /\ event_buffer.events[s].event = e
                /\ event_buffer.events[s].pending = pending
                /\ event_buffer.events[s].msg_id \in msg_ids

SweepRecheckSound ==
    rb_op' = "sweep_recheck" => OnlyChanges(comm.event, TRUE, {comm.old_msg_id})

\* C23: on the three paths that drop the ring-buffer lock for a publish, the
\* update made after the lock is taken again (delivery id, pending flag,
\* timestamp) changes only the slot that still holds the entry that was
\* published, in the state it was in when the lock was dropped: pending with
\* the old delivery id on the timeout sweep, not pending on the reconnect flush
\* and on the immediate publish.
C23_MutationOnlyOnTheSameEntry ==
    [][ /\ SweepRecheckSound
        /\ rb_op' = "fl_mark" => OnlyChanges(mqtt.event, FALSE, {-1} \cup 0..next_msg_id)
        /\ rb_op' = "pt_mark" => OnlyChanges(comm.event, FALSE, {-1} \cup 0..next_msg_id)
      ]_vars

(***************************************************************************)
(* event_buffer_mutex around esp_mqtt_client_publish                       *)
(***************************************************************************)

\* the steps in which esp_mqtt_client_publish is called, by calling task
CommPublishOps == {"pt_publish", "pt_failed", "sweep_publish", "sweep_failed"}

MqttPublishOps == {"fl_publish", "fl_failed"}

\* C24: event_buffer_mutex is not held by the caller during any call of
\* esp_mqtt_client_publish (publish_telemetry, flush_buffered_events,
\* check_pending_timeouts), and check_pending_timeouts gives the mutex as often
\* as it takes it: the comm task holds it exactly while it is inside the sweep's
\* for loop, each take finds it free, and the sweep ends with it free.
C24_LockNotHeldDuringPublish ==
    /\ [](mutex \in {"free", "comm"})
    /\ [](mutex = "comm" <=> comm.pc = "ct_loop")
    /\ [][ /\ rb_op' \in CommPublishOps => (mutex = "free" /\ mutex' = "free")
           /\ rb_op' \in MqttPublishOps => (mutex # "mqtt" /\ mutex' # "mqtt")
           /\ rb_op' = "sweep_timed_out" => (mutex' = "free" /\ comm'.pc = "ct_publish")
           /\ rb_op' = "sweep_recheck" => (mutex = "free" /\ mutex' = "comm")
           /\ rb_op' = "sweep_done" => mutex' = "free"
         ]_vars

\* the sweep has republished a timed-out entry with the mutex released
C24_Witness ==
    /\ rb_op = "sweep_publish"
    /\ comm.pc = "ct_recheck"
    /\ mutex = "free"

(***************************************************************************)
(* Nesting of the mutexes                                                  *)
(***************************************************************************)
InitLockTasks == InitCtl /\ InitLib /\ InitRB(NoBudget)
NextLocks == LockCalls \/ LockSteps \/ LockTimeouts
SpecLocks == InitLockTasks /\ [][NextLocks]_vars

\* the mutexes task t holds when the owners are as in owner
Held(owner, t) == {l \in LockNames : owner[l] = t}

\* task t is inside a take of a mutex that another task holds
Blocked(t) ==
    /\ lock_pc[t] # LockIdle
    /\ LockOp(t).op = "take"
    /\ lock_owner[LockOp(t).lock] # "none"

\* a set of tasks each of which waits for a mutex held by a task of the set
WaitCycle ==
    \E S \in (SUBSET LockTasks) \ {{}} :
        \A t \in S : Blocked(t) /\ lock_owner[LockOp(t).lock] \in S

\* C25: no task takes the PIN mutex, event_buffer_mutex or i2c_mutex while it
\* holds another (a task holds at most one, and each take is made holding
\* none), and no state has tasks waiting for each other's mutexes in a cycle.
C25_NoNestedLocking ==
    /\ [](\A t \in LockTasks : Cardinality(Held(lock_owner, t)) <= 1)
    /\ [][\A t \in LockTasks :
             Held(lock_owner', t) # Held(lock_owner, t) =>
                 (Held(lock_owner, t) = {} \/ Held(lock_owner', t) = {})]_vars
    /\ [](~WaitCycle)

\* three tasks hold one mutex each while a fourth waits for one of them
C25_Witness ==
    /\ Cardinality({t \in LockTasks : Held(lock_owner, t) # {}}) >= 3
    /\ \E t \in LockTasks : Blocked(t)

(***************************************************************************)
(* CMD_SET_CODE and CMD_SET_SENSITIVITY in the two command processors      *)
(***************************************************************************)

\* the PIN the processor that ran the last command keeps (control_task.c keeps
\* current_pin, command_handler.c goes through pin_manager)
StoredPin(kind, cpin, ram) == IF kind = "cmd" THEN cpin ELSE ram

InitJsonTasks == InitCtl /\ InitLib /\ InitRB(NoBudget)
NextJson == HandleMqttCommand \/ ControlReceiveCommand \/ EventToJson
SpecJson == InitJsonTasks /\ [][NextJson]_vars

\* the command tag of a documented command message, "" for any other message
DocumentedTag(msg) ==
    IF ~msg.parses \/ msg.command.t # "string" THEN ""
    ELSE IF msg.command.s = STR_lock THEN "CMD_LOCK"
    ELSE IF msg.command.s = STR_unlock THEN "CMD_UNLOCK"
    ELSE IF msg.command.s = STR_reset_alarm THEN "CMD_RESET_ALARM"
    ELSE IF msg.command.s = STR_set_code /\ msg.code.t = "string" /\ FourDigits(msg.code.s)
         THEN "CMD_SET_CODE"
    ELSE IF msg.command.s = STR_set_sensitivity /\ msg.sensitivity.t = "number"
         THEN "CMD_SET_SENSITIVITY"
    ELSE ""

\* C28: decoding succeeds with the matching command tag for every documented
\* command: lock, unlock, set_code with a 4-digit code (carried through
\* unchanged), reset_alarm, and the sensitivity command with its threshold.
C28_DecodesEveryDocumentedCommand ==
    [][ (json_op'.fn = "handle_mqtt_command" /\ json_op'.n > json_op.n
            /\ DocumentedTag(json_op'.msg) # "") =>
            /\ json_op'.ret
            /\ json_op'.cmd.type = DocumentedTag(json_op'.msg)
            /\ json_op'.cmd.type = "CMD_SET_CODE" => json_op'.cmd.code = json_op'.msg.code.s
            /\ json_op'.cmd.type = "CMD_SET_SENSITIVITY" =>
                  json_op'.cmd.sensitivity = json_op'.msg.sensitivity.n
      ]_vars

\* a message with no command member, or a set_code whose code has 5 digits or
\* a character that is no digit
MustBeRefused(msg) ==
    /\ msg.parses
    /\ \/ msg.command.t = "absent"
       \/ /\ msg.command.t = "string" /\ msg.command.s = STR_set_code
          /\ msg.code.t = "string"
          /\ \/ Len(msg.code.s) = 5 /\ AllDigits(msg.code.s)
             \/ ~AllDigits(msg.code.s)

\* C29: for a message with no command field, a set_code with a 5-digit code
\* and a set_code with non-digit characters, decoding returns failure and
\* handle_mqtt_command puts nothing on the command queue.
C29_RefusesInvalidCommands ==
    [][ (json_op'.fn = "handle_mqtt_command" /\ json_op'.n > json_op.n
            /\ MustBeRefused(json_op'.msg)) =>
            /\ ~json_op'.ret
            /\ ~json_op'.sent
            /\ queues' = queues
      ]_vars

\* C30: the encoding of an event of any kind has ts, state (locked, unlocked
\* or alarm) and an event name identifying the kind; a movement event also has
\* movement_amount, a code_entry event also has code_ok, and state_change has
\* neither.
C30_EncodesEveryKind ==
    (json_op.fn = "event_to_json" /\ json_op.len > 0) =>
        LET e == json_op.event
            j == json_op.json
        IN  /\ j.ts = JNumber(e.timestamp)
            /\ j.state = JString(state_to_string(e.state))
            /\ j.state.s \in {STR_locked, STR_unlocked, STR_alarm}
            /\ j.event.t = "string"
            /\ j.event = JString(STR_state_change) <=> e.type = "EVT_STATE_CHANGE"
            /\ j.event = JString(STR_code_entry) <=> e.type = "EVT_CODE_RESULT"
            /\ e.type = "EVT_MOVEMENT" => j.movement_amount = JNumber(e.movement_amount)
            /\ e.type = "EVT_CODE_RESULT" => j.code_ok = JBool(e.code_ok)
            /\ e.type = "EVT_STATE_CHANGE" =>
                  (j.movement_amount = JAbsent /\ j.code_ok = JAbsent)

(***************************************************************************)
(* The control logic as a whole: unknown commands, wrong_count, the alarm  *)
(***************************************************************************)

\* C31: a command whose tag neither command switch knows changes nothing (safe
\* state, wrong_count, LED, both PIN stores, the motion threshold, the keypad
\* buffer), sends no event, and leaves the control loop able to take the next
\* key and the next command.
C31_UnknownCommandDropped ==
    /\ [][ op'.arg = "CMD_UNKNOWN" =>
               /\ UNCHANGED <<safe_sm, led, pin_buffer, current_pin, pm_pin, nvs_pin,
                              movement_threshold>>
               /\ emitted' = <<>>
         ]_vars
    /\ [](op.arg = "CMD_UNKNOWN" =>
              /\ ENABLED KeyPress
              /\ ENABLED ControlCommand
              /\ ENABLED CommandHandler)

\* an unknown command arrived while the safe was in alarm with a changed PIN
\* and a changed threshold, and was dropped
C31_Witness ==
    /\ op.arg = "CMD_UNKNOWN"
    /\ safe_sm.current_state = "STATE_ALARM"
    /\ prev = safe_sm
    /\ current_pin # CORRECT_PIN
    /\ movement_threshold # INITIAL_SENSITIVITY
    /\ emitted = <<>>

\* the step is a PIN attempt (keypad or EVENT_*_PIN) that was wrong / correct
WrongPinStep ==
    \/ op'.kind = "pin" /\ op'.pin # current_pin
    \/ op'.kind = "event" /\ op'.arg = "EVENT_WRONG_PIN"

CorrectPinStep ==
    \/ op'.kind = "pin" /\ op'.pin = current_pin
    \/ op'.kind = "event" /\ op'.arg = "EVENT_CORRECT_PIN"

\* C32: wrong_count changes in two ways only: a wrong PIN processed while
\* Locked adds exactly 1, and a correct PIN that changes the state, or an
\* accepted CMD_RESET_ALARM, sets it to 0; every other operation leaves it.
C32_WrongCountChanges ==
    [][ /\ (WrongPinStep /\ safe_sm.current_state = "STATE_LOCKED") =>
               safe_sm'.wrong_count = safe_sm.wrong_count + 1
        /\ safe_sm'.wrong_count # safe_sm.wrong_count =>
               \/ /\ WrongPinStep
                  /\ safe_sm.current_state = "STATE_LOCKED"
               \/ /\ safe_sm'.wrong_count = 0
                  /\ \/ CorrectPinStep /\ safe_sm'.current_state # safe_sm.current_state
                     \/ op'.arg = "CMD_RESET_ALARM" /\ safe_sm.current_state = "STATE_ALARM"
      ]_vars

----------------------------------------------------------------------------
(* The movement detector on a stream of samples.  The threshold is        *)
(* INITIAL_SENSITIVITY or what a set_sensitivity command left there.       *)

InitMotion ==
    /\ safe_sm = state_machine_init
    /\ led = "LED_MODE_LOCKED"
    /\ pin_buffer = <<>>
    /\ current_pin = CORRECT_PIN
    /\ movement_threshold \in {INITIAL_SENSITIVITY}
                                 \cup {mpu6050_set_threshold(s) : s \in Sensitivities}
    /\ emitted = <<StateChangeEvent(state_machine_init)>>
    /\ op = OpInit
    /\ prev = state_machine_init
    /\ wrongs = 0 /\ streak = NoStreak /\ steps = 0
    /\ InitPin(NoPinBudget, CORRECT_PIN) /\ InitQueues(NoSends)
    /\ InitLocks /\ InitJson /\ InitWdt
    /\ \E initialized \in BOOLEAN : InitMpu(initialized)
    /\ InitRB(NoBudget)
NextMotion == MovementDetected
SpecMotion == InitMotion /\ [][NextMotion]_vars

\* the last MOVEMENT_HIT_COUNT samples read were all over the threshold
ThreeInARow ==
    /\ Len(mpu.recent) = MOVEMENT_HIT_COUNT
    /\ \A i \in 1..MOVEMENT_HIT_COUNT : mpu.recent[i]

\* C33: mpu6050_movement_detected reports motion only when the last
\* MOVEMENT_HIT_COUNT samples it read were each over the threshold, so a
\* sample below the threshold puts off the report until three samples in a
\* row are over it again.
C33_ReportOnlyAfterThreeInARow == mpu.ret => ThreeInARow

----------------------------------------------------------------------------
(* The task watchdog: the loops of control_task and sensor_task.           *)

InitWdtTasks == InitCtl /\ InitLib /\ InitRB(NoBudget)
NextWdt == SensorTake \/ SensorReset \/ SensorRead \/ ControlIteration
SpecWdt == InitWdtTasks /\ [][NextWdt]_vars

\* C34: every turn of control_task's loop resets the watchdog, and the
\* watchdog's deadline is never missed while the loops keep turning.
C34_ControlLoopResetsWatchdog ==
    /\ wdt.done = "control_task" => wdt.fed["control_task"]
    /\ ~WatchdogExpired

----------------------------------------------------------------------------
\* C35: the keypad buffer holds 0 to PIN_LENGTH digits and a digit pressed
\* on a full buffer is not stored; '#' makes a PIN attempt only on exactly
\* PIN_LENGTH digits, and a shorter or empty submission sends no event and
\* leaves wrong_count as it is; after every '#' and every '*' the buffer is
\* empty.
C35_KeypadEntry ==
    /\ [](Len(pin_buffer) \in 0..PIN_LENGTH)
    /\ [][ /\ (op'.kind = "key" /\ IsDigit(op'.arg) /\ Len(pin_buffer) = PIN_LENGTH)
                  => pin_buffer' = pin_buffer
           /\ op'.kind = "pin" => Len(pin_buffer) = PIN_LENGTH /\ op'.pin = pin_buffer
           /\ (op'.kind = "key" /\ op'.arg = "#")
                  => /\ Len(pin_buffer) # PIN_LENGTH
                     /\ emitted' = <<>>
                     /\ safe_sm' = safe_sm
           /\ (op'.kind \in {"key", "pin"} /\ op'.arg \in {"#", "*"})
                  => pin_buffer' = <<>> ]_vars

\* three digits were submitted with '#' after one wrong PIN
C35_Witness ==
    /\ op = OpKey("#")
    /\ pin_buffer = <<>>
    /\ emitted = <<>>
    /\ safe_sm.current_state = "STATE_LOCKED"
    /\ safe_sm.wrong_count = 1
    /\ prev = safe_sm

----------------------------------------------------------------------------
\* the entries of the ring buffer that are marked pending
PendingSlots(buf) ==
    {Slot(buf.tail + i) : i \in {j \in 0..(buf.count - 1) : buf.events[Slot(buf.tail + j)].pending}}

\* C36: every turn of the loop of flush_buffered_events either marks one
\* more entry pending or ends the flush (link down, or publish refused),
\* also when the event cannot be encoded; so the loop cannot come back to
\* the same entry without having marked it.
C36_FlushTurnMarksOrStops ==
    [][ /\ (mqtt.pc = "fl_publish" /\ mqtt' # mqtt)
            => \/ mqtt'.pc = "fl_mark"
               \/ mqtt' = MqttIdle /\ rb_op' \in {"fl_disconnected", "fl_failed"}
        /\ rb_op' = "fl_mark"
            => Cardinality(PendingSlots(event_buffer')) = Cardinality(PendingSlots(event_buffer)) + 1 ]_vars

----------------------------------------------------------------------------
\* C37: in every state of the telemetry ring buffer count is between 0 and
\* EVENT_BUFFER_SIZE, head and tail are slots of the array, and head is
\* count slots after tail, modulo the size of the array.
C37_RingBufferShape ==
    /\ event_buffer.count \in 0..EVENT_BUFFER_SIZE
    /\ event_buffer.head \in 0..(EVENT_BUFFER_SIZE - 1)
    /\ event_buffer.tail \in 0..(EVENT_BUFFER_SIZE - 1)
    /\ event_buffer.head = (event_buffer.tail + event_buffer.count) % EVENT_BUFFER_SIZE

\* the buffer is full after an eviction has moved tail, head has wrapped
\* around, and an acknowledgment has removed an entry
C37_Witness ==
    /\ event_buffer.count = EVENT_BUFFER_SIZE
    /\ event_buffer.tail > 0
    /\ event_buffer.head = event_buffer.tail
    /\ evicted # {}
    /\ removed.by = "ack"

----------------------------------------------------------------------------
\* C38: the safe never goes from Alarm to Unlocked in one step: the state
\* after Alarm is Alarm or Locked, Locked only by a correct PIN or by
\* ResetAlarm, and a remote Unlock received in Alarm changes nothing.
C38_AlarmOnlyToLocked ==
    [][ safe_sm.current_state = "STATE_ALARM" =>
           /\ safe_sm'.current_state \in {"STATE_ALARM", "STATE_LOCKED"}
           /\ safe_sm'.current_state = "STATE_LOCKED"
                  => (CorrectPinStep \/ op'.arg = "CMD_RESET_ALARM")
           /\ op'.arg = "CMD_UNLOCK" => (safe_sm' = safe_sm /\ emitted' = <<>> /\ led' = led) ]_vars

\* a remote Unlock has been processed in Alarm
C38_Witness ==
    /\ op.arg = "CMD_UNLOCK"
    /\ prev.current_state = "STATE_ALARM"
    /\ safe_sm.current_state = "STATE_ALARM"
    /\ safe_sm.wrong_count = MAX_WRONG_ATTEMPTS

----------------------------------------------------------------------------
\* SpecPinInit: pin_manager_init on every content of the flash, then flows
\* calling pin_manager_set
InitPinInit == /\ InitCtl
               /\ InitIdle
               /\ InitPinBoot(MaxNvsFaults)
               /\ InitQueues(NoSends)
               /\ InitRB(NoBudget)
PinInitOnce == PinInit(MaxPinCalls)
NextPinInit == PinInitOnce \/ PinSet
SpecPinInit == InitPinInit /\ [][NextPinInit]_vars

\* pin_manager_init has returned true
PinInitialised ==
    /\ pin_op.fn # "boot"
    /\ pin_op.fn = "pin_manager_init" => pin_op.ret

\* C39: once pin_manager_init has succeeded the in-memory PIN is four
\* digits in every state: init takes the stored PIN when it is valid and
\* the default when nothing is stored, or what is stored cannot be read or
\* is not a valid PIN, and no call of pin_manager_set, successful or
\* failed, makes it invalid.
C39_InMemoryPinValid ==
    /\ [](PinInitialised => FourDigits(pm_pin))
    /\ [][ (pin_op'.fn = "pin_manager_init" /\ pin_op'.ret) =>
              pm_pin' = IF pin_op'.outcome = "ok" /\ FourDigits(nvs_pin)
                        THEN nvs_pin ELSE pin_op'.arg ]_vars

\* init found an invalid string in the flash and took the default; a set
\* call then failed on a commit error
C39_Witness ==
    /\ pin_op.fn = "set_return" /\ ~pin_op.ret
    /\ pin_op.outcome \in {"commit_failed", "commit_failed_written"}
    /\ nvs_pin = <<"0", "0", "/", "0">>
    /\ pm_pin = CORRECT_PIN

----------------------------------------------------------------------------
\* C40: wrong_count never exceeds MAX_WRONG_ATTEMPTS, and in Locked it is
\* below MAX_WRONG_ATTEMPTS: the third wrong PIN leaves Locked in the step
\* that counts it.
C40_WrongCountBounded ==
    /\ safe_sm.wrong_count \in 0..MAX_WRONG_ATTEMPTS
    /\ safe_sm.current_state = "STATE_LOCKED" => safe_sm.wrong_count < MAX_WRONG_ATTEMPTS

\* two wrong PINs, a remote Unlock, and a Lock through command_handler that
\* brings the count back into Locked
C40_Witness ==
    /\ op.kind = "cmdh"
    /\ op.arg = "CMD_LOCK"
    /\ prev.current_state = "STATE_UNLOCKED"
    /\ safe_sm.current_state = "STATE_LOCKED"
    /\ safe_sm.wrong_count = MAX_WRONG_ATTEMPTS - 1

====
